---- MODULE Spec2Model ----
(***************************************************************************)
(* The Streamable HTTP transport of src/mcp_streamable_server.py:          *)
(* MCPStreamableServer with its session table, the Origin check, the       *)
(* JSON-RPC message processor and the SSE rendering.  Under Spec one       *)
(* action is one HTTP exchange, handled from the first line of the handler *)
(* to its return; under TaskSpec the handlers of two connections are tasks *)
(* interleaved at their awaits; under StreamSpec one event stream is       *)
(* written frame by frame while the clock advances.                        *)
(***************************************************************************)
EXTENDS Integers, Sequences, FiniteSets, TLC

(***************************************************************************)
(* Bounds of the model.                                                    *)
(***************************************************************************)
\* how many times uuid.uuid4() may be called in one behaviour
MaxSessions == 2
\* the longest batch (JSON array body) a client posts
MaxBatch == 2

(***************************************************************************)
(* Python and JSON values.  Every optional value is a string, so that the  *)
(* two sentinels below compare with it.                                    *)
(***************************************************************************)
\* Python's None: a header the request does not carry, a JSON null
PyNone == "None"
\* the value of a key that a dict does not hold
Absent == "<absent>"

\* the JSON-RPC error codes the server uses
METHOD_NOT_FOUND == -32601
INTERNAL_ERROR == -32603

\* bool(x) of an optional string: None and "" are falsy
Truthy(x) == x # PyNone /\ x # ""

\* d.get(k, default) of a dict modelled as a record with the set d.keys
Get(d, k, default) == IF k \in d.keys THEN d[k] ELSE default

\* f with f[k] = v, k added to the domain when it is new: d[k] = v
Put(f, k, v) == [x \in (DOMAIN f) \cup {k} |-> IF x = k THEN v ELSE f[x]]

\* a removal that empties the dict
Del_every_key(f, k) == [x \in {} |-> f[x]]

\* f without the key k: del d[k]
Del(f, k) == [x \in (DOMAIN f) \ {k} |-> f[x]]

(***************************************************************************)
(* The arguments and params members of a message.  py is the Python type   *)
(* the JSON value decodes to.                                              *)
(***************************************************************************)
ArgsDict(keys, query, limit_py, limit) ==
    [py |-> "dict", keys |-> keys, query |-> query,
     limit_py |-> limit_py, limit |-> limit]

\* {} : what params.get('arguments', {}) returns for a missing key
EmptyArgs == ArgsDict({}, Absent, "absent", 0)

\* a JSON string where an object is expected
StrArgs == [py |-> "str", keys |-> {}, query |-> Absent,
            limit_py |-> "absent", limit |-> 0]

ParamsDict(keys, protocolVersion, clientInfo, capabilities, name, arguments) ==
    [py |-> "dict", keys |-> keys, protocolVersion |-> protocolVersion,
     clientInfo |-> clientInfo, capabilities |-> capabilities,
     name |-> name, arguments |-> arguments]

\* {} : what message.get('params', {}) returns for a missing key
EmptyParams == ParamsDict({}, Absent, Absent, Absent, Absent, EmptyArgs)

\* params that decode to something that is not a dict
NonDictParams(py) ==
    [py |-> py, keys |-> {}, protocolVersion |-> Absent, clientInfo |-> Absent,
     capabilities |-> Absent, name |-> Absent, arguments |-> EmptyArgs]

(***************************************************************************)
(* An element of a decoded body.  A dict carries the set of its keys; a    *)
(* str or a list carries whether 'method' in it is true.                   *)
(***************************************************************************)
DictMsg(keys, id, method, params) ==
    [py |-> "dict", keys |-> keys, id |-> id, method |-> method,
     params |-> params, has_method_item |-> FALSE]

NonDictMsg(py, has_method_item) ==
    [py |-> py, keys |-> {}, id |-> PyNone, method |-> Absent,
     params |-> EmptyParams, has_method_item |-> has_method_item]

\* a JSON-RPC Request with params: id, method, params
Request(id, method, params) ==
    DictMsg({"jsonrpc", "id", "method", "params"}, id, method, params)

\* a JSON-RPC Request without the optional params
RequestNoParams(id, method) ==
    DictMsg({"jsonrpc", "id", "method"}, id, method, EmptyParams)

\* a JSON-RPC Notification: method, no id
Notification(method) ==
    DictMsg({"jsonrpc", "method"}, PyNone, method, EmptyParams)

\* a JSON-RPC Response sent by the client: id and result, no method
ClientResponse(id) ==
    DictMsg({"jsonrpc", "id", "result"}, id, Absent, EmptyParams)

IsRequest(m) == m.py = "dict" /\ "method" \in m.keys /\ "id" \in m.keys
IsNotification(m) == m.py = "dict" /\ "method" \in m.keys /\ "id" \notin m.keys

(***************************************************************************)
(* A message the server builds.                                            *)
(***************************************************************************)
\* {"jsonrpc": "2.0", "id": id, "result": result}
ResultMsg(id, result, items) ==
    [py |-> "dict", keys |-> {"jsonrpc", "id", "result"}, id |-> id,
     result |-> result, items |-> items, code |-> 0, _session_id |-> Absent]

\* an error that carries a result member as well
ErrorMsg_with_result(id, code) ==
    [py |-> "dict", keys |-> {"jsonrpc", "id", "error", "result"}, id |-> id,
     result |-> "content", items |-> 0, code |-> code, _session_id |-> Absent]

\* {"jsonrpc": "2.0", "id": id, "error": {"code": code, ...}}
ErrorMsg(id, code) ==
    [py |-> "dict", keys |-> {"jsonrpc", "id", "error"}, id |-> id,
     result |-> Absent, items |-> 0, code |-> code, _session_id |-> Absent]

\* the None a handler returns for a message without method
NoneMsg ==
    [py |-> "NoneType", keys |-> {}, id |-> PyNone,
     result |-> Absent, items |-> 0, code |-> 0, _session_id |-> Absent]

(***************************************************************************)
(* MCPStreamableServer.  st is the object's state: st.sessions is          *)
(* self.sessions, st.uuid_calls counts the calls of uuid.uuid4() so far.   *)
(***************************************************************************)
\* the values uuid.uuid4() returns, in the order of the calls: each call
\* returns a value no earlier call returned and no client has sent
UuidPool ==
    <<"uuid-1", "uuid-2", "uuid-3", "uuid-4", "uuid-5", "uuid-6", "uuid-7", "uuid-8">>

\* the identifiers uuid.uuid4() has returned so far
Issued(st) == {UuidPool[i] : i \in 1..st.uuid_calls}

\* a generator that returns the value of its first call again
create_session_id_repeating(st) == UuidPool[1]

create_session_id(st) == UuidPool[st.uuid_calls + 1]

\* what a handler does: return a value, or raise (exc is the exception's class)
Return(value, st) == [exc |-> PyNone, value |-> value, st |-> st]
Raise(exc, st) == [exc |-> exc, value |-> NoneMsg, st |-> st]

\* str.startswith over the pieces a value of the Origin header splits into
Pieces(s) ==
    CASE s = "http://localhost:" -> <<"http://localhost", ":">>
      [] s = "http://127.0.0.1:" -> <<"http://127.0.0.1", ":">>
      [] s = "http://localhost:8080" -> <<"http://localhost", ":", "8080">>
      [] s = "http://127.0.0.1:8080" -> <<"http://127.0.0.1", ":", "8080">>
      [] s = "http://localhost:3000" -> <<"http://localhost", ":", "3000">>
      [] s = "http://127.0.0.1:5173" -> <<"http://127.0.0.1", ":", "5173">>
      [] s = "http://localhost.evil.example" -> <<"http://localhost", ".evil.example">>
      [] s = "https://localhost:8080" -> <<"https://localhost", ":", "8080">>
      [] s = "" -> << >>
      [] OTHER -> <<s>>

StartsWith(s, prefix) ==
    /\ Len(Pieces(prefix)) <= Len(Pieces(s))
    /\ SubSeq(Pieces(s), 1, Len(Pieces(prefix))) = Pieces(prefix)

safe_origins ==
    {"http://localhost:8080", "http://127.0.0.1:8080", "http://localhost",
     "http://127.0.0.1", "null"}

is_safe_origin(origin) ==
    \/ origin \in safe_origins
    \/ StartsWith(origin, "http://localhost:")
    \/ StartsWith(origin, "http://127.0.0.1:")

\* a record stored before its last two members are set
SessionRecord_half_built(params, t) ==
    [protocol_version |-> Get(params, "protocolVersion", "2025-03-26"),
     client_info |-> Get(params, "clientInfo", "{}")]

\* the record handle_initialize stores for a session
SessionRecord(params, t) ==
    [protocol_version |-> Get(params, "protocolVersion", "2025-03-26"),
     client_info |-> Get(params, "clientInfo", "{}"),
     capabilities |-> Get(params, "capabilities", "{}"),
     created_at |-> t]

handle_initialize(params, request_id, session_id, st, t) ==
    LET fresh == ~Truthy(session_id)
        sid == IF fresh THEN create_session_id(st) ELSE session_id
        st1 == IF fresh THEN [st EXCEPT !.uuid_calls = @ + 1] ELSE st
    IN  IF params.py # "dict"
        THEN Raise("AttributeError", st1)
        ELSE Return([ResultMsg(request_id, "InitializeResult", 0)
                        EXCEPT !.keys = @ \cup {"_session_id"},
                               !._session_id = sid],
                    [st1 EXCEPT !.sessions = Put(@, sid, SessionRecord(params, t))])

\* the two tools of the tools/list result
handle_list_tools(request_id) == ResultMsg(request_id, "tools", 2)

\* limit's default in arguments.get("limit", 5)
DEFAULT_LIMIT == 5
\* len(mock_results)
MOCK_RESULTS == 2

\* len(xs[:limit]) for a list xs of n items
SliceLen(n, limit) ==
    IF limit >= 0
    THEN (IF limit < n THEN limit ELSE n)
    ELSE (IF n + limit > 0 THEN n + limit ELSE 0)

\* an unknown name answered like a tool without output
unknown_tool_as_result(request_id) == ResultMsg(request_id, "content", 0)

\* the reply of handle_call_tool to a name that is no tool
unknown_tool(request_id) == ErrorMsg(request_id, METHOD_NOT_FOUND)

\* a tools/call that empties self.sessions
handle_call_tool_clearing_sessions(params, request_id, st) ==
    Return(ResultMsg(request_id, "content", 1),
           [st EXCEPT !.sessions = [x \in {} |-> 0]])

\* a tools/call that is refused while no session is live
handle_call_tool_needing_session(params, request_id, st) ==
    IF DOMAIN st.sessions = {}
    THEN Return(ErrorMsg(request_id, INTERNAL_ERROR), st)
    ELSE Return(ResultMsg(request_id, "content", 1), st)

handle_call_tool(params, request_id, st) ==
    IF params.py # "dict"
    THEN Raise("AttributeError", st)
    ELSE
      LET tool_name == Get(params, "name", PyNone)
          arguments == Get(params, "arguments", EmptyArgs)
      IN  IF tool_name = "search_documents"
          THEN IF arguments.py # "dict"
               THEN Raise("AttributeError", st)
               ELSE IF "limit" \notin arguments.keys
               THEN Return(ResultMsg(request_id, "content",
                                     SliceLen(MOCK_RESULTS, DEFAULT_LIMIT)), st)
               ELSE IF arguments.limit_py = "int"
               THEN Return(ResultMsg(request_id, "content",
                                     SliceLen(MOCK_RESULTS, arguments.limit)), st)
               ELSE IF arguments.limit_py = "NoneType"
               THEN Return(ResultMsg(request_id, "content", MOCK_RESULTS), st)
               ELSE Raise("TypeError", st)
          ELSE IF tool_name = "get_server_info"
          THEN Return(ResultMsg(request_id, "content", 1), st)
          ELSE Return(unknown_tool(request_id), st)

handle_list_resources(request_id) == ResultMsg(request_id, "resources", 0)

handle_list_prompts(request_id) == ResultMsg(request_id, "prompts", 0)

\* the error without the id of the Request
method_not_found_without_id(request_id) == ErrorMsg(PyNone, METHOD_NOT_FOUND)

\* the reply of process_jsonrpc_message to a method it does not know
method_not_found(request_id) == ErrorMsg(request_id, METHOD_NOT_FOUND)

\* the try block of process_jsonrpc_message
process_try(message, session_id, st, t) ==
    IF message.py \notin {"dict", "str", "list"}
    THEN Raise("TypeError", st)
    ELSE IF (message.py = "dict" /\ "method" \in message.keys)
            \/ (message.py # "dict" /\ message.has_method_item)
    THEN IF message.py # "dict"
         THEN Raise("TypeError", st)
         ELSE
           LET method == message.method
               params == Get(message, "params", EmptyParams)
               request_id == Get(message, "id", PyNone)
           IN  CASE method = "initialize" ->
                      handle_initialize(params, request_id, session_id, st, t)
                 [] method = "tools/list" ->
                      Return(handle_list_tools(request_id), st)
                 [] method = "tools/call" ->
                      handle_call_tool(params, request_id, st)
                 [] method = "resources/list" ->
                      Return(handle_list_resources(request_id), st)
                 [] method = "prompts/list" ->
                      Return(handle_list_prompts(request_id), st)
                 [] OTHER ->
                      Return(method_not_found(request_id), st)
    ELSE Return(NoneMsg, st)

\* the except block of process_jsonrpc_message, r being what the try block did
process_except(message, r) ==
    IF r.exc = PyNone
    THEN r
    ELSE IF message.py = "dict"
    THEN Return(ErrorMsg(Get(message, "id", PyNone), INTERNAL_ERROR), r.st)
    ELSE Raise("AttributeError", r.st)

process_jsonrpc_message(message, session_id, st, t) ==
    process_except(message, process_try(message, session_id, st, t))

(***************************************************************************)
(* HTTP requests and replies.                                              *)
(***************************************************************************)
\* a request on /mcp: the headers hold PyNone when they are not sent; accept
\* is the set of media types the Accept header names; a body that is valid
\* JSON is a list of elements (is_list) or the one element elems[1]
HttpRequest(http, origin, content_type, accept, session_id, body_valid, is_list, elems) ==
    [http |-> http, origin |-> origin, content_type |-> content_type,
     accept |-> accept, session_id |-> session_id, body_valid |-> body_valid,
     is_list |-> is_list, elems |-> elems]

\* a reply: kind is "json" (messages[1] is the body), "json_error" (the body is
\* {"error": text}), "sse" (messages are the frames' data and event_ids their
\* id: lines), "text" or "empty"; session_id is the Mcp-Session-Id header
HttpReply(status, kind, session_id, messages, event_ids, text) ==
    [status |-> status, kind |-> kind, session_id |-> session_id,
     messages |-> messages, event_ids |-> event_ids, text |-> text]

\* an error put into a JSON-RPC envelope and sent with status 200
ErrorReply_as_envelope(status, text) ==
    HttpReply(200, "json", PyNone, <<ErrorMsg(PyNone, INTERNAL_ERROR)>>, << >>, text)

\* an error that leaves the handler as an exception: the framework answers 500
ErrorReply_as_server_error(status, text) ==
    HttpReply(500, "json_error", PyNone, << >>, << >>, text)

\* web.json_response({"error": text}, status=status)
ErrorReply(status, text) == HttpReply(status, "json_error", PyNone, << >>, << >>, text)

\* what a handler leaves: the server's state and the reply
Handled(st, reply) == [st |-> st, reply |-> reply]

\* msg as it is, the _session_id member left in
WithoutSessionId_keeping(msg) == msg

\* msg without its _session_id member
WithoutSessionId(msg) ==
    IF "_session_id" \in msg.keys
    THEN [msg EXCEPT !.keys = @ \ {"_session_id"}, !._session_id = Absent]
    ELSE msg

\* the _session_id of the first message that has a truthy one
session_id_to_send(messages) ==
    LET having == {i \in 1..Len(messages) :
                      Truthy(Get(messages[i], "_session_id", PyNone))}
    IN  IF having = {}
        THEN PyNone
        ELSE messages[CHOOSE i \in having : \A j \in having : i <= j]._session_id

\* the characters of the decimal digits
DigitChars == <<"0", "1", "2", "3", "4", "5", "6", "7", "8", "9">>

\* str(n) of an int, as the sequence of its characters
RECURSIVE Str(_)
Str(n) ==
    IF n < 0 THEN <<"-">> \o Str(-n)
    ELSE IF n < 10 THEN <<DigitChars[n + 1]>>
    ELSE Str(n \div 10) \o <<DigitChars[(n % 10) + 1]>>

\* an identifier that leaves the index of the frame out
event_id_without_index(t, i) == <<"m", "s", "g", "-">> \o Str(t) \o <<"-", "0">>

\* f"msg-{int(time * 1000)}-{i}", t being the clock in milliseconds
event_id(t, i) == <<"m", "s", "g", "-">> \o Str(t) \o <<"-">> \o Str(i)

\* a stream whose identifiers number the results and the errors apart
create_sse_response_ids_by_content(messages, session_id, listen_mode, t) ==
    HttpReply(200, "sse", session_id_to_send(messages),
              [i \in 1..Len(messages) |-> WithoutSessionId(messages[i])],
              [i \in 1..Len(messages) |->
                  event_id(t, IF "error" \in messages[i].keys THEN 0 ELSE i)],
              IF listen_mode THEN "listen" ELSE "")

create_sse_response(messages, session_id, listen_mode, t) ==
    HttpReply(200, "sse", session_id_to_send(messages),
              [i \in 1..Len(messages) |-> WithoutSessionId(messages[i])],
              [i \in 1..Len(messages) |-> event_id(t, i - 1)],
              IF listen_mode THEN "listen" ELSE "")

\* the loop over the elements of a batch; batch_step is its body, r being
\* what process_jsonrpc_message did with body[i]
RECURSIVE batch_loop(_, _, _, _, _, _)
RECURSIVE batch_step(_, _, _, _, _, _)
batch_loop(body, i, session_id, st, t, results) ==
    IF i > Len(body)
    THEN [exc |-> PyNone, results |-> results, st |-> st]
    ELSE batch_step(body, i, session_id, t, results,
                    process_jsonrpc_message(body[i], session_id, st, t))

\* a loop that ends at the first element answered with an error
batch_step_stopping_at_error(body, i, session_id, t, results, r) ==
    IF r.exc # PyNone
    THEN [exc |-> r.exc, results |-> results, st |-> r.st]
    ELSE IF r.value.py = "dict" /\ "error" \in r.value.keys
    THEN [exc |-> PyNone, results |-> Append(results, r.value), st |-> r.st]
    ELSE batch_loop(body, i + 1, session_id, r.st, t,
                    IF r.value.py = "dict" THEN Append(results, r.value) ELSE results)

batch_step(body, i, session_id, t, results, r) ==
    IF r.exc # PyNone
    THEN [exc |-> r.exc, results |-> results, st |-> r.st]
    ELSE batch_loop(body, i + 1, session_id, r.st, t,
                    IF r.value.py = "dict" THEN Append(results, r.value) ELSE results)

\* a batch branch that answers every array with an event stream
post_batch_reply_always_stream(request, session_id, t, b) ==
    IF b.exc # PyNone
    THEN Handled(b.st, ErrorReply(400, b.exc))
    ELSE Handled(b.st, create_sse_response(b.results, session_id, FALSE, t))

\* the reply of the batch branch, b being what the loop did
post_batch_reply(request, session_id, t, b) ==
    IF b.exc # PyNone
    THEN Handled(b.st, ErrorReply(400, b.exc))
    ELSE IF \E i \in 1..Len(request.elems) :
               /\ request.elems[i].py = "dict"
               /\ "method" \in request.elems[i].keys
    THEN Handled(b.st, create_sse_response(b.results, session_id, FALSE, t))
    ELSE Handled(b.st, HttpReply(202, "empty", PyNone, << >>, << >>, ""))

\* the batch branch of handle_post
post_batch(request, session_id, st, t) ==
    post_batch_reply(request, session_id, t,
                     batch_loop(request.elems, 1, session_id, st, t, << >>))

\* the reply of the single-message branch, r being what
\* process_jsonrpc_message did with the body
post_single_reply(body, accept_header, session_id, t, r) ==
    IF r.exc # PyNone
    THEN Handled(r.st, ErrorReply(400, r.exc))
    ELSE IF (body.py = "dict" /\ "method" \in body.keys)
            \/ (body.py # "dict" /\ body.has_method_item)
    THEN IF "text/event-stream" \in accept_header
         THEN Handled(r.st,
                  create_sse_response(IF r.value.py = "dict" THEN <<r.value>> ELSE << >>,
                                      session_id, FALSE, t))
         ELSE IF r.value.py = "dict" /\ Truthy(Get(r.value, "_session_id", PyNone))
         THEN Handled(r.st,
                  HttpReply(200, "json", r.value._session_id,
                            <<WithoutSessionId(r.value)>>, << >>, ""))
         ELSE Handled(r.st, HttpReply(200, "json", PyNone, <<r.value>>, << >>, ""))
    ELSE Handled(r.st, HttpReply(202, "empty", PyNone, << >>, << >>, ""))

\* the single-message branch of handle_post
post_single(request, accept_header, session_id, st, t) ==
    post_single_reply(request.elems[1], accept_header, session_id, t,
                      process_jsonrpc_message(request.elems[1], session_id, st, t))

\* a handle_post that decodes the body whatever the Content-Type and Accept
handle_post_without_header_checks(request, st, t) ==
    IF Truthy(request.origin) /\ ~is_safe_origin(request.origin)
    THEN Handled(st, ErrorReply(403, "Unsafe origin"))
    ELSE IF ~request.body_valid
    THEN Handled(st, ErrorReply(400, "JSONDecodeError"))
    ELSE IF request.is_list
    THEN post_batch(request, request.session_id, st, t)
    ELSE post_single(request, request.accept, request.session_id, st, t)

\* a handle_post that checks the Content-Type before the Origin
handle_post_content_type_first(request, st, t) ==
    IF request.content_type # "application/json"
    THEN Handled(st, ErrorReply(400, "Content-Type must be application/json"))
    ELSE IF Truthy(request.origin) /\ ~is_safe_origin(request.origin)
    THEN Handled(st, ErrorReply(403, "Unsafe origin"))
    ELSE IF "application/json" \notin request.accept
            /\ "text/event-stream" \notin request.accept
    THEN Handled(st, ErrorReply(400, "Accept header must include application/json or text/event-stream"))
    ELSE IF ~request.body_valid
    THEN Handled(st, ErrorReply(400, "JSONDecodeError"))
    ELSE IF request.is_list
    THEN post_batch(request, request.session_id, st, t)
    ELSE post_single(request, request.accept, request.session_id, st, t)

handle_post(request, st, t) ==
    IF Truthy(request.origin) /\ ~is_safe_origin(request.origin)
    THEN Handled(st, ErrorReply(403, "Unsafe origin"))
    ELSE IF request.content_type # "application/json"
    THEN Handled(st, ErrorReply(400, "Content-Type must be application/json"))
    ELSE IF "application/json" \notin request.accept
            /\ "text/event-stream" \notin request.accept
    THEN Handled(st, ErrorReply(400, "Accept header must include application/json or text/event-stream"))
    ELSE IF ~request.body_valid
    THEN Handled(st, ErrorReply(400, "JSONDecodeError"))
    ELSE IF request.is_list
    THEN post_batch(request, request.session_id, st, t)
    ELSE post_single(request, request.accept, request.session_id, st, t)

\* a handle_get that opens the stream whatever the Accept header
handle_get_any_accept(request, st, t) ==
    Handled(st, create_sse_response(<< >>, request.session_id, TRUE, t))

handle_get(request, st, t) ==
    IF "text/event-stream" \notin request.accept
    THEN Handled(st, HttpReply(405, "text", PyNone, << >>, << >>, "Method Not Allowed"))
    ELSE Handled(st, create_sse_response(<< >>, request.session_id, TRUE, t))

handle_delete(request, st, t) ==
    LET session_id == request.session_id
    IN  IF Truthy(session_id) /\ session_id \in DOMAIN st.sessions
        THEN Handled([st EXCEPT !.sessions = Del(@, session_id)],
                     HttpReply(200, "empty", PyNone, << >>, << >>, ""))
        ELSE Handled(st, HttpReply(404, "text", PyNone, << >>, << >>, "Session not found"))

handle_options(request, st, t) ==
    Handled(st, HttpReply(200, "empty", PyNone, << >>, << >>, "cors"))

handle_mcp_endpoint(request, st, t) ==
    CASE request.http = "OPTIONS" -> handle_options(request, st, t)
      [] request.http = "POST" -> handle_post(request, st, t)
      [] request.http = "GET" -> handle_get(request, st, t)
      [] request.http = "DELETE" -> handle_delete(request, st, t)
      [] OTHER -> Handled(st, ErrorReply(405, "Method not allowed"))

(***************************************************************************)
(* The requests clients send.                                              *)
(***************************************************************************)
InitParams ==
    ParamsDict({"protocolVersion", "clientInfo", "capabilities"},
               "2024-11-05", "client-1", "roots", Absent, EmptyArgs)

CallParams(name, arguments) ==
    ParamsDict({"name", "arguments"}, Absent, Absent, Absent, name, arguments)

\* {"name": name}
CallParamsNoArgs(name) ==
    ParamsDict({"name"}, Absent, Absent, Absent, name, EmptyArgs)

SearchArgs == ArgsDict({"query", "limit"}, "x", "int", 1)

\* {"query": "x", "limit": limit}
SearchArgsLimit(limit) == ArgsDict({"query", "limit"}, "x", "int", limit)

\* the single messages of a POST body
SingleMsgs ==
    { RequestNoParams("1", "initialize"),
      Request("1", "initialize", InitParams),
      Request("1", "initialize", NonDictParams("list")),
      RequestNoParams("1", "tools/list"),
      Request("2", "tools/call", CallParams("search_documents", SearchArgs)),
      Request("2", "tools/call", CallParams("search_documents", SearchArgsLimit(-1))),
      Request("2", "tools/call", CallParams("search_documents", SearchArgsLimit(0))),
      Request("2", "tools/call", CallParams("search_documents", SearchArgsLimit(3))),
      Request("2", "tools/call", CallParams("search_documents", StrArgs)),
      Request("2", "tools/call", CallParamsNoArgs("get_server_info")),
      Request("2", "tools/call", CallParamsNoArgs("no_such_tool")),
      Request("2", "tools/call", EmptyParams),
      Request("2", "tools/call", NonDictParams("NoneType")),
      RequestNoParams("1", "resources/list"),
      RequestNoParams("2", "prompts/list"),
      RequestNoParams("2", "no/such/method"),
      Notification("notifications/initialized"),
      Notification("initialize"),
      ClientResponse("1"),
      NonDictMsg("int", FALSE),
      NonDictMsg("str", TRUE),
      NonDictMsg("str", FALSE) }

\* the elements of a batch
BatchMsgs ==
    { RequestNoParams("1", "initialize"),
      Request("3", "initialize", InitParams),
      RequestNoParams("1", "tools/list"),
      RequestNoParams("2", "no/such/method"),
      Request("2", "tools/call", CallParamsNoArgs("no_such_tool")),
      Request("2", "tools/call", NonDictParams("NoneType")),
      Notification("notifications/initialized"),
      ClientResponse("1"),
      NonDictMsg("int", FALSE) }

Batches == UNION {[1..n -> BatchMsgs] : n \in 0..MaxBatch}

Origins ==
    {PyNone, "", "null", "http://localhost", "http://localhost:3000",
     "http://localhost.evil.example", "http://evil.example"}

Accepts ==
    { {"application/json"}, {"application/json", "text/event-stream"}, {"text/html"} }

\* an identifier a client makes up, never one uuid.uuid4() returns
ClientChosenIds == {"client-chosen"}

\* the Mcp-Session-Id headers a client can send: none, an identifier the
\* server issued, an identifier of its own
SessionHeaders(st) == {PyNone} \cup Issued(st) \cup ClientChosenIds

NoBody(http, origin, accept, session_id) ==
    HttpRequest(http, origin, "application/octet-stream", accept, session_id,
                FALSE, FALSE, << >>)

PostRequests(st) ==
    \* a single message
    { HttpRequest("POST", PyNone, "application/json", a, sid, TRUE, FALSE, <<m>>) :
        a \in {{"application/json"}, {"application/json", "text/event-stream"}},
        sid \in SessionHeaders(st), m \in SingleMsgs }
    \cup
    \* a batch
    { HttpRequest("POST", PyNone, "application/json", {"application/json"},
                  sid, TRUE, TRUE, b) :
        sid \in {PyNone} \cup ClientChosenIds, b \in Batches }
    \cup
    \* any headers, a body that is not JSON or an initialize Request
    { HttpRequest("POST", o, ct, a, sid, v, FALSE,
                  IF v THEN <<RequestNoParams("1", "initialize")>> ELSE << >>) :
        o \in Origins, ct \in {"application/json", "text/plain"}, a \in Accepts,
        sid \in {PyNone} \cup ClientChosenIds, v \in BOOLEAN }

GetRequests(st) ==
    { NoBody("GET", o, a, sid) :
        o \in Origins, a \in {{"text/event-stream"}, {"application/json"}},
        sid \in SessionHeaders(st) }

DeleteRequests(st) ==
    { NoBody("DELETE", o, {"application/json"}, sid) :
        o \in Origins, sid \in SessionHeaders(st) }

OptionsRequests == { NoBody("OPTIONS", o, {"application/json"}, PyNone) : o \in Origins }

(***************************************************************************)
(* The client: MCPStreamableClient and the run of its methods that         *)
(* test_streamable_http_connection makes.                                  *)
(***************************************************************************)
\* the largest id a client assigns to a request
MaxRequestId == 6

\* the clients that use the server at the same time
ClientIds == {"a", "b"}

\* the object __init__ leaves.  script, result, exc, status and sent record
\* the calls made on it: script is how many steps of the run of
\* test_streamable_http_connection the calls so far are (-1 when they are
\* not a prefix of it, or the run was given up), result what the last call
\* returned, exc what it raised, status the HTTP status it was answered
\* (0 when it sent nothing), sent the ids of the requests sent so far, call
\* the last call made
NewClient ==
    [session_id |-> PyNone, next_request_id |-> 1, initialized |-> FALSE,
     script |-> 0, result |-> NoneMsg, exc |-> PyNone, status |-> 0,
     sent |-> << >>, call |-> PyNone]

\* what a method of the client leaves: the object, the server, the value
\* returned or the exception raised, the HTTP status of the answer
Called(cl, st, value, exc, status) ==
    [cl |-> cl, st |-> st, value |-> value, exc |-> exc, status |-> status]

\* params=None
NoParams == NonDictParams("NoneType")

\* 'Accept': 'application/json, text/event-stream'
ClientAccept == {"application/json", "text/event-stream"}

\* the message send_request builds; the id is written as its decimal digits
ClientMessage(request_id, method, params) ==
    IF params.py # "NoneType"
    THEN Request(ToString(request_id), method, params)
    ELSE RequestNoParams(ToString(request_id), method)

\* the dict {"error": text} that the body of an HTTP error decodes to
ErrorBody ==
    [py |-> "dict", keys |-> {"error"}, id |-> PyNone,
     result |-> Absent, items |-> 0, code |-> 0, _session_id |-> Absent]

\* the data of the first event of the stream, ValueError when it has none
read_sse_response(cl, st, response) ==
    IF Len(response.messages) > 0
    THEN Called(cl, st, response.messages[1], PyNone, response.status)
    ELSE Called(cl, st, NoneMsg, "ValueError", response.status)

\* a client that does not read the Mcp-Session-Id header of the response
send_request_response_without_header(cl, st, response) ==
    CASE response.kind = "sse" -> read_sse_response(cl, st, response)
      [] response.kind = "json" ->
            Called(cl, st, response.messages[1], PyNone, response.status)
      [] response.kind = "json_error" ->
            Called(cl, st, ErrorBody, PyNone, response.status)
      [] OTHER -> Called(cl, st, NoneMsg, "ValueError", response.status)

\* send_request from the response on: the header, then the body by its
\* Content-Type
send_request_response(cl, st, response) ==
    CASE response.kind = "sse" ->
            read_sse_response(
                IF response.session_id # PyNone
                THEN [cl EXCEPT !.session_id = response.session_id] ELSE cl,
                st, response)
      [] response.kind = "json" ->
            Called(IF response.session_id # PyNone
                   THEN [cl EXCEPT !.session_id = response.session_id] ELSE cl,
                   st, response.messages[1], PyNone, response.status)
      [] response.kind = "json_error" ->
            Called(IF response.session_id # PyNone
                   THEN [cl EXCEPT !.session_id = response.session_id] ELSE cl,
                   st, ErrorBody, PyNone, response.status)
      [] OTHER ->
            Called(IF response.session_id # PyNone
                   THEN [cl EXCEPT !.session_id = response.session_id] ELSE cl,
                   st, NoneMsg, "ValueError", response.status)

\* request_id = self.next_request_id; self.next_request_id += 1
get_next_request_id(cl) == [cl EXCEPT !.next_request_id = @ + 1]

\* send_request once the server has answered, out being what the server left
send_request_answered(cl, out) == send_request_response(cl, out.st, out.reply)

send_request(cl, method, params, st, t) ==
    send_request_answered(
        get_next_request_id(cl),
        handle_mcp_endpoint(
            HttpRequest("POST", PyNone, "application/json", ClientAccept,
                        IF Truthy(cl.session_id) THEN cl.session_id ELSE PyNone,
                        TRUE, FALSE,
                        <<ClientMessage(cl.next_request_id, method, params)>>),
            st, t))

\* the params of the client's initialize
ClientInitParams ==
    ParamsDict({"protocolVersion", "clientInfo", "capabilities"},
               "2025-03-26", "MCP Streamable HTTP Test Client", "roots,sampling",
               Absent, EmptyArgs)

\* an initialize that takes every reply for a success
initialize_result_ignoring_error(r) == [r EXCEPT !.cl.initialized = TRUE]

\* initialize after its send_request, r being what send_request left
initialize_result(r) ==
    IF r.exc # PyNone
    THEN r
    ELSE IF r.value.py # "dict"
    THEN [r EXCEPT !.value = NoneMsg, !.exc = "TypeError"]
    ELSE IF "error" \in r.value.keys
    THEN [r EXCEPT !.value = NoneMsg, !.exc = "Exception"]
    ELSE [r EXCEPT !.cl.initialized = TRUE]

initialize(cl, st, t) ==
    initialize_result(send_request(cl, "initialize", ClientInitParams, st, t))

\* the replies that an endpoint which refuses the initialize gives, the
\* request not having reached the server: an HTTP error with a JSON body,
\* a JSON-RPC error as the JSON body or as the one frame of a stream, a
\* body of another Content-Type, a stream without frame
RefusedReplies ==
    { ErrorReply(400, "Bad Request"),
      HttpReply(200, "json", PyNone, <<ErrorMsg(PyNone, INTERNAL_ERROR)>>, << >>, ""),
      HttpReply(200, "sse", PyNone, <<ErrorMsg(PyNone, INTERNAL_ERROR)>>,
                <<event_id(0, 0)>>, ""),
      HttpReply(502, "text", PyNone, << >>, << >>, "Bad Gateway"),
      HttpReply(200, "sse", PyNone, << >>, << >>, "") }

\* initialize when the endpoint answers its request with response
initialize_refused(cl, st, response) ==
    initialize_result(send_request_response(get_next_request_id(cl), st, response))

\* raise Exception("Клиент не инициализирован"): nothing is sent
not_initialized(cl, st) == Called(cl, st, NoneMsg, "Exception", 0)

list_tools(cl, st, t) ==
    IF ~cl.initialized
    THEN not_initialized(cl, st)
    ELSE send_request(cl, "tools/list", NoParams, st, t)

call_tool(cl, name, arguments, st, t) ==
    IF ~cl.initialized
    THEN not_initialized(cl, st)
    ELSE send_request(cl, "tools/call", CallParams(name, arguments), st, t)

list_resources(cl, st, t) ==
    IF ~cl.initialized
    THEN not_initialized(cl, st)
    ELSE send_request(cl, "resources/list", NoParams, st, t)

list_prompts(cl, st, t) ==
    IF ~cl.initialized
    THEN not_initialized(cl, st)
    ELSE send_request(cl, "prompts/list", NoParams, st, t)

\* close_session once the server has answered
close_session_answered(cl, out) ==
    Called(cl, out.st, NoneMsg, PyNone, out.reply.status)

close_session(cl, st, t) ==
    IF Truthy(cl.session_id)
    THEN close_session_answered(
             cl, handle_mcp_endpoint(NoBody("DELETE", PyNone, {"*/*"}, cl.session_id),
                                     st, t))
    ELSE Called(cl, st, NoneMsg, PyNone, 0)

\* the calls test_streamable_http_connection makes, in its order; a
\* call_tool is named by its tool
Script ==
    <<"initialize", "list_tools", "get_server_info", "search_documents",
      "list_resources", "list_prompts", "close_session">>

\* the calls whose exception ends the run: the others are made inside a
\* try block of their own
EndsRun == {"initialize", "list_tools", "close_session"}

\* the tools a call_tool names, and the arguments it passes
ToolCalls == {"get_server_info", "search_documents", "no_such_tool"}

ToolArguments(name) ==
    IF name = "search_documents" THEN SearchArgsLimit(3) ELSE EmptyArgs

(***************************************************************************)
(* The state machine.                                                      *)
(***************************************************************************)
VARIABLES
    sessions,     \* self.sessions
    uuid_calls,   \* the number of calls of uuid.uuid4()
    now,          \* asyncio.get_event_loop().time(), in milliseconds: the
                  \* exchanges of a behaviour fall within one reading
    request,      \* the last request handled
    reply,        \* the reply to it
    before,       \* the state the last request found: self.sessions, the
                  \* number of uuid.uuid4() calls and closed
    closed,       \* the identifiers a DELETE removed, not live again since
    tasks,        \* the handler task of each open connection
    stream,       \* one event stream, frame by frame
    clients       \* the MCPStreamableClient objects that use the server

vars == <<sessions, uuid_calls, now, request, reply, before, closed, tasks, stream,
          clients>>

Server == [sessions |-> sessions, uuid_calls |-> uuid_calls]

NoRequest == NoBody("NONE", PyNone, {}, PyNone)

NoReply == HttpReply(0, "empty", PyNone, << >>, << >>, "")

NoSessions == [x \in {} |-> 0]

NoBefore == [sessions |-> NoSessions, uuid_calls |-> 0, closed |-> {}]

\* no stream: pc is where create_sse_response is, n the length of its
\* messages, i the index of enumerate, frames the id: lines written so far
NoStream == [pc |-> "none", n |-> 0, i |-> 0, listen_mode |-> FALSE, frames |-> << >>]

\* the connections the server has open at the same time, one task each
Connections == {"c1", "c2"}

\* a connection without a request: no task runs for it.  A task is at pc;
\* i is the element of the body or the frame of the stream it is at, results
\* the list the batch loop has built, plan the response the handler has
\* made, reply what it has sent of it; connected says that the client has
\* not closed the connection, was_live that a DELETE found its identifier
IdleTask ==
    [pc |-> "idle", request |-> NoRequest, i |-> 0, results |-> << >>,
     plan |-> NoReply, reply |-> NoReply, connected |-> FALSE, was_live |-> FALSE]

Init ==
    /\ sessions = NoSessions
    /\ uuid_calls = 0
    /\ now = 0
    /\ request = NoRequest
    /\ reply = NoReply
    /\ before = NoBefore
    /\ closed = {}
    /\ tasks = [c \in Connections |-> IdleTask]
    /\ stream = NoStream
    /\ clients = [c \in ClientIds |-> NewClient]

\* one exchange: the request is handled to its reply, out being what
\* handle_mcp_endpoint leaves
Exchange(req) ==
    \E out \in {handle_mcp_endpoint(req, Server, now)} :
        /\ out.st.uuid_calls <= MaxSessions
        /\ sessions' = out.st.sessions
        /\ uuid_calls' = out.st.uuid_calls
        /\ request' = req
        /\ reply' = out.reply
        /\ before' = [sessions |-> sessions, uuid_calls |-> uuid_calls,
                       closed |-> closed]
        /\ closed' = (closed \cup (DOMAIN sessions \ DOMAIN out.st.sessions))
                        \ DOMAIN out.st.sessions
        /\ UNCHANGED <<now, tasks, stream, clients>>

Post == request = NoRequest /\ \E req \in PostRequests(Server) : Exchange(req)

Get_ == request = NoRequest /\ \E req \in GetRequests(Server) : Exchange(req)

Delete == request = NoRequest /\ \E req \in DeleteRequests(Server) : Exchange(req)

Options == request = NoRequest /\ \E req \in OptionsRequests : Exchange(req)

\* the reply has been sent and the handler's task is over
Finish ==
    /\ request # NoRequest
    /\ request' = NoRequest
    /\ reply' = NoReply
    /\ before' = NoBefore
    /\ UNCHANGED <<sessions, uuid_calls, now, closed, tasks, stream, clients>>

Next == Post \/ Get_ \/ Delete \/ Options \/ Finish

Spec == Init /\ [][Next]_vars

(***************************************************************************)
(* The handlers as asyncio tasks, one for each open connection.  A task    *)
(* runs alone from one await to the next, and at every await another task  *)
(* may run.  Each action below is the code between two awaits.             *)
(***************************************************************************)
\* the handler of req reaches an await: handle_post reaches
\* 'await request.json()' when the header checks pass, handle_get reaches
\* 'await response.prepare(request)' when Accept names text/event-stream;
\* handle_delete, handle_options and the early returns hold no await
Suspends(req) ==
    \/ /\ req.http = "POST"
       /\ ~(Truthy(req.origin) /\ ~is_safe_origin(req.origin))
       /\ req.content_type = "application/json"
       /\ ("application/json" \in req.accept \/ "text/event-stream" \in req.accept)
    \/ /\ req.http = "GET"
       /\ "text/event-stream" \in req.accept

\* the elements of the batches the concurrent clients post
TaskBatchMsgs ==
    { RequestNoParams("1", "initialize"), RequestNoParams("1", "tools/list") }

TaskBatches == UNION {[1..n -> TaskBatchMsgs] : n \in 0..MaxBatch}

\* the requests the concurrent clients send
TaskRequests(st) ==
    { HttpRequest("POST", PyNone, "application/json", a, PyNone, TRUE, FALSE,
                  <<RequestNoParams("1", "initialize")>>) :
        a \in {{"application/json"}, {"application/json", "text/event-stream"}} }
    \cup
    { HttpRequest("POST", PyNone, "application/json", {"application/json"},
                  PyNone, TRUE, TRUE, b) : b \in TaskBatches }
    \cup
    { HttpRequest("POST", PyNone, "application/json", {"application/json"},
                  PyNone, FALSE, FALSE, << >>) }
    \cup
    { NoBody("GET", PyNone, a, PyNone) :
        a \in {{"text/event-stream"}, {"application/json"}} }
    \cup
    { NoBody("DELETE", PyNone, {"application/json"}, sid) :
        sid \in {PyNone} \cup Issued(st) }
    \cup
    { NoBody("OPTIONS", PyNone, {"application/json"}, PyNone) }

\* self.sessions and the uuid count become those of st
SetServer(st) ==
    /\ sessions' = st.sessions
    /\ uuid_calls' = st.uuid_calls
    /\ closed' = (closed \cup (DOMAIN sessions \ DOMAIN st.sessions))
                    \ DOMAIN st.sessions

\* the task has made its response: web.json_response and web.Response are
\* returned at once, create_sse_response goes on to response.prepare
Planned(task, plan) ==
    IF plan.kind = "sse"
    THEN [task EXCEPT !.pc = "prepare", !.plan = plan, !.results = << >>, !.i = 0]
    ELSE [task EXCEPT !.pc = "done", !.plan = plan, !.reply = plan,
                      !.results = << >>, !.i = 0]

\* a loop that goes to write_eof after its first frame
AfterFrame_one_frame(task, f) ==
    IF f < 1 /\ f < Len(task.plan.messages)
    THEN [task EXCEPT !.pc = "write", !.i = f + 1]
    ELSE IF task.plan.text = "listen"
    THEN [task EXCEPT !.pc = "sleep", !.i = 0]
    ELSE [task EXCEPT !.pc = "eof", !.i = 0]

\* where create_sse_response goes after f frames: the next frame,
\* asyncio.sleep in listen mode, or write_eof
AfterFrame(task, f) ==
    IF f < Len(task.plan.messages)
    THEN [task EXCEPT !.pc = "write", !.i = f + 1]
    ELSE IF task.plan.text = "listen"
    THEN [task EXCEPT !.pc = "sleep", !.i = 0]
    ELSE [task EXCEPT !.pc = "eof", !.i = 0]

\* a request arrives on connection c and its handler runs to its first
\* await, or to its return when it has none
Arrive(c) ==
    /\ tasks[c].pc = "idle"
    /\ \E req \in TaskRequests(Server) :
          IF Suspends(req)
          THEN /\ tasks' = [tasks EXCEPT ![c] =
                     IF req.http = "POST"
                     THEN [IdleTask EXCEPT !.pc = "json", !.request = req,
                                           !.connected = TRUE]
                     ELSE Planned([IdleTask EXCEPT !.request = req, !.connected = TRUE],
                                  handle_get(req, Server, now).reply)]
               /\ UNCHANGED <<sessions, uuid_calls, closed>>
          ELSE \E out \in {handle_mcp_endpoint(req, Server, now)} :
                  /\ SetServer(out.st)
                  /\ tasks' = [tasks EXCEPT ![c] =
                        Planned([IdleTask EXCEPT
                                    !.request = req, !.connected = TRUE,
                                    !.was_live = req.session_id \in DOMAIN sessions],
                                out.reply)]
    /\ UNCHANGED <<now, request, reply, before, stream, clients>>

\* 'await request.json()' is over: a body that is not JSON raises and is
\* answered 400, an empty batch is answered at once, otherwise the first
\* element goes to 'await self.process_jsonrpc_message'
Decode(c) ==
    /\ tasks[c].pc = "json"
    /\ tasks' = [tasks EXCEPT ![c] =
          IF tasks[c].request.body_valid /\ Len(tasks[c].request.elems) > 0
          THEN [@ EXCEPT !.pc = "process", !.i = 1]
          ELSE Planned(@, handle_post(@.request, Server, now).reply)]
    /\ UNCHANGED <<sessions, uuid_calls, closed, now, request, reply, before, stream, clients>>

\* what the task is at once process_jsonrpc_message has done r with the
\* element i of the body
AfterProcess(task, r) ==
    IF ~task.request.is_list
    THEN Planned(task, post_single_reply(task.request.elems[1], task.request.accept,
                                         task.request.session_id, now, r).reply)
    ELSE IF r.exc # PyNone
    THEN Planned(task, post_batch_reply(task.request, task.request.session_id, now,
                          [exc |-> r.exc, results |-> task.results, st |-> r.st]).reply)
    ELSE IF task.i < Len(task.request.elems)
    THEN [task EXCEPT !.i = @ + 1,
                      !.results = IF r.value.py = "dict" THEN Append(@, r.value) ELSE @]
    ELSE Planned(task, post_batch_reply(task.request, task.request.session_id, now,
                          [exc |-> PyNone,
                           results |-> IF r.value.py = "dict"
                                       THEN Append(task.results, r.value)
                                       ELSE task.results,
                           st |-> r.st]).reply)

\* a process_jsonrpc_message that waits while a listen-mode stream sleeps
Process_waiting_for_streams(c) ==
    /\ tasks[c].pc = "process"
    /\ \A d \in Connections : tasks[d].pc # "sleep"
    /\ \E r \in {process_jsonrpc_message(tasks[c].request.elems[tasks[c].i],
                                         tasks[c].request.session_id, Server, now)} :
          /\ r.st.uuid_calls <= MaxSessions
          /\ SetServer(r.st)
          /\ tasks' = [tasks EXCEPT ![c] = AfterProcess(@, r)]
    /\ UNCHANGED <<now, request, reply, before, stream, clients>>

\* process_jsonrpc_message handles the element i of the body: the handler it
\* awaits holds no await, so the element is handled in one piece
Process(c) ==
    /\ tasks[c].pc = "process"
    /\ \E r \in {process_jsonrpc_message(tasks[c].request.elems[tasks[c].i],
                                         tasks[c].request.session_id, Server, now)} :
          /\ r.st.uuid_calls <= MaxSessions
          /\ SetServer(r.st)
          /\ tasks' = [tasks EXCEPT ![c] = AfterProcess(@, r)]
    /\ UNCHANGED <<now, request, reply, before, stream, clients>>

\* 'await response.prepare(request)' is over: the status and the headers are
\* sent
Prepare(c) ==
    /\ tasks[c].pc = "prepare"
    /\ tasks' = [tasks EXCEPT ![c] =
          AfterFrame([@ EXCEPT !.reply = HttpReply(200, "sse", tasks[c].plan.session_id,
                                                   << >>, << >>, tasks[c].plan.text)], 0)]
    /\ UNCHANGED <<sessions, uuid_calls, closed, now, request, reply, before, stream, clients>>

\* 'await response.write(...)' of the frame i is over: the frame is sent, or
\* the connection is closed, the write raises and the finally block follows
Write(c) ==
    /\ tasks[c].pc = "write"
    /\ tasks' = [tasks EXCEPT ![c] =
          IF @.connected
          THEN AfterFrame([@ EXCEPT
                              !.reply.messages = Append(@, tasks[c].plan.messages[tasks[c].i]),
                              !.reply.event_ids = Append(@, tasks[c].plan.event_ids[tasks[c].i])],
                          @.i)
          ELSE [@ EXCEPT !.pc = "eof", !.i = 0]]
    /\ UNCHANGED <<sessions, uuid_calls, closed, now, request, reply, before, stream, clients>>

\* 'await asyncio.sleep(0.1)' of listen mode is over
Wake(c) ==
    /\ tasks[c].pc = "sleep"
    /\ tasks' = [tasks EXCEPT ![c].pc = "eof"]
    /\ UNCHANGED <<sessions, uuid_calls, closed, now, request, reply, before, stream, clients>>

\* 'await response.write_eof()' is over: the server has ended the stream and
\* the handler returns
Eof(c) ==
    /\ tasks[c].pc = "eof"
    /\ tasks' = [tasks EXCEPT ![c].pc = "done"]
    /\ UNCHANGED <<sessions, uuid_calls, closed, now, request, reply, before, stream, clients>>

\* the client closes the connection while the stream is open
Disconnect(c) ==
    /\ tasks[c].pc \in {"write", "sleep"}
    /\ tasks[c].connected
    /\ tasks' = [tasks EXCEPT ![c].connected = FALSE]
    /\ UNCHANGED <<sessions, uuid_calls, closed, now, request, reply, before, stream, clients>>

\* the exchange on connection c is over
Close(c) ==
    /\ tasks[c].pc = "done"
    /\ tasks' = [tasks EXCEPT ![c] = IdleTask]
    /\ UNCHANGED <<sessions, uuid_calls, closed, now, request, reply, before, stream, clients>>

TaskNext ==
    \E c \in Connections :
        \/ Arrive(c)
        \/ Decode(c)
        \/ Process(c)
        \/ Prepare(c)
        \/ Write(c)
        \/ Wake(c)
        \/ Eof(c)
        \/ Disconnect(c)
        \/ Close(c)

TaskSpec == Init /\ [][TaskNext]_vars

(***************************************************************************)
(* One event stream of create_sse_response, frame by frame: the clock is   *)
(* read anew for the identifier of each frame and does not go back.        *)
(***************************************************************************)
\* the most frames a stream carries
MaxFrames == 3
\* the latest reading of the clock, in milliseconds
MaxClock == 11

\* create_sse_response is called with n messages and has sent the headers
StreamOpen ==
    /\ stream.pc \in {"none", "ended"}
    /\ \E n \in 0..MaxFrames, listen_mode \in BOOLEAN :
          stream' = [pc |-> "loop", n |-> n, i |-> 0,
                     listen_mode |-> listen_mode, frames |-> << >>]
    /\ UNCHANGED <<sessions, uuid_calls, now, request, reply, before, closed, tasks, clients>>

\* one turn of 'for i, message in enumerate(messages)': the clock is read,
\* the frame is written under the identifier made of the reading and of i
StreamWrite ==
    /\ stream.pc = "loop"
    /\ stream.i < stream.n
    /\ stream' = [stream EXCEPT !.frames = Append(@, event_id(now, stream.i)),
                                !.i = @ + 1]
    /\ UNCHANGED <<sessions, uuid_calls, now, request, reply, before, closed, tasks, clients>>

\* the loop is over: asyncio.sleep in listen mode, then write_eof
StreamEof ==
    /\ stream.pc = "loop"
    /\ stream.i = stream.n
    /\ stream' = [stream EXCEPT !.pc = "ended"]
    /\ UNCHANGED <<sessions, uuid_calls, now, request, reply, before, closed, tasks, clients>>

\* time passes: the loop's clock is monotonic
Tick ==
    /\ \E t \in (now + 1)..MaxClock : now' = t
    /\ UNCHANGED <<sessions, uuid_calls, request, reply, before, closed, tasks, stream, clients>>

StreamNext == StreamOpen \/ StreamWrite \/ StreamEof \/ Tick

StreamSpec == Init /\ [][StreamNext]_vars

(***************************************************************************)
(* The clients against the server.  A call of a method of a client is one  *)
(* action: the request it sends is handled by the server to its reply      *)
(* before the method returns.  The methods are called in any order;        *)
(* script follows the order test_streamable_http_connection calls them in. *)
(***************************************************************************)
\* script after the call step that raised exc (PyNone: it returned)
Advance(script, step, exc) ==
    IF /\ script >= 0
       /\ script < Len(Script)
       /\ Script[script + 1] = step
       /\ ~(exc # PyNone /\ step \in EndsRun)
    THEN script + 1
    ELSE -1

\* the call step of client c has left r
Call(c, step, r) ==
    /\ sessions' = r.st.sessions
    /\ uuid_calls' = r.st.uuid_calls
    /\ clients' =
          [clients EXCEPT ![c] =
              [session_id |-> r.cl.session_id,
               next_request_id |-> r.cl.next_request_id,
               initialized |-> r.cl.initialized,
               script |-> Advance(clients[c].script, step, r.exc),
               result |-> r.value,
               exc |-> r.exc,
               status |-> r.status,
               sent |-> IF r.cl.next_request_id > clients[c].next_request_id
                        THEN Append(clients[c].sent, clients[c].next_request_id)
                        ELSE clients[c].sent,
               call |-> step]]
    /\ UNCHANGED <<now, request, reply, before, closed, tasks, stream>>

\* initialize is answered by the server, or by an endpoint that refuses it
ClientInitialize(c) ==
    /\ clients[c].next_request_id <= MaxRequestId
    /\ \E r \in {initialize(clients[c], Server, now)}
                 \cup {initialize_refused(clients[c], Server, response) :
                          response \in RefusedReplies} :
          Call(c, "initialize", r)

ClientListTools(c) ==
    /\ clients[c].next_request_id <= MaxRequestId
    /\ \E r \in {list_tools(clients[c], Server, now)} : Call(c, "list_tools", r)

ClientCallTool(c) ==
    /\ clients[c].next_request_id <= MaxRequestId
    /\ \E name \in ToolCalls :
          \E r \in {call_tool(clients[c], name, ToolArguments(name), Server, now)} :
              Call(c, name, r)

ClientListResources(c) ==
    /\ clients[c].next_request_id <= MaxRequestId
    /\ \E r \in {list_resources(clients[c], Server, now)} :
          Call(c, "list_resources", r)

ClientListPrompts(c) ==
    /\ clients[c].next_request_id <= MaxRequestId
    /\ \E r \in {list_prompts(clients[c], Server, now)} : Call(c, "list_prompts", r)

ClientCloseSession(c) ==
    \E r \in {close_session(clients[c], Server, now)} : Call(c, "close_session", r)

ClientNext ==
    \E c \in ClientIds :
        \/ ClientInitialize(c)
        \/ ClientListTools(c)
        \/ ClientCallTool(c)
        \/ ClientListResources(c)
        \/ ClientListPrompts(c)
        \/ ClientCloseSession(c)

ClientSpec == Init /\ [][ClientNext]_vars

(***************************************************************************)
(* What the claims speak of, in the state an exchange leaves.              *)
(***************************************************************************)
\* the last request was a POST that passed the Origin, Content-Type and
\* Accept checks and whose body was decoded
Processed ==
    /\ request.http = "POST"
    /\ ~(Truthy(request.origin) /\ ~is_safe_origin(request.origin))
    /\ request.content_type = "application/json"
    /\ ("application/json" \in request.accept \/ "text/event-stream" \in request.accept)
    /\ request.body_valid

\* every element of the body is a JSON object, as a Message is
AllObjects == \A i \in 1..Len(request.elems) : request.elems[i].py = "dict"

\* the body is the one Message m sits in
SingleMessage == Processed /\ ~request.is_list /\ AllObjects

\* the body is an array of Messages
BatchOfMessages == Processed /\ request.is_list /\ AllObjects

\* the identifiers uuid.uuid4() had returned when the last request arrived
IssuedBefore == {UuidPool[i] : i \in 1..before.uuid_calls}

\* m is an initialize Request whose params are an object or left out
ValidInitialize(m) ==
    /\ IsRequest(m)
    /\ m.method = "initialize"
    /\ Get(m, "params", EmptyParams).py = "dict"

\* msg is a Response with a result and no error, answering id
IsResultFor(msg, id) ==
    /\ msg.py = "dict"
    /\ "result" \in msg.keys
    /\ "error" \notin msg.keys
    /\ msg.id = id

\* msg is a Response with an error of the code and no result, answering id
IsErrorFor(msg, id, code) ==
    /\ msg.py = "dict"
    /\ "error" \in msg.keys
    /\ "result" \notin msg.keys
    /\ msg.code = code
    /\ msg.id = id

SessionScoped == {"tools/list", "tools/call", "resources/list", "prompts/list"}

KnownMethods == {"initialize"} \cup SessionScoped

RegisteredTools == {"search_documents", "get_server_info"}

\* how many elements of the sequence xs satisfy P
Count(xs, P(_)) == Cardinality({i \in 1..Len(xs) : P(xs[i])})

(***************************************************************************)
(* C1. An initialize Request posted without Mcp-Session-Id (params an      *)
(* object or left out, every element of the body a Message) is answered    *)
(* 200 with an Mcp-Session-Id that was not a key of the session table, had *)
(* never been issued and had never been live, and that is a key of the     *)
(* table afterwards; and a tools/list Request posted with an identifier    *)
(* the server issued is answered 200 with a result and no error.           *)
(***************************************************************************)
C1_InitializeIssuesFreshSession ==
    /\ ( /\ Processed
         /\ AllObjects
         /\ request.session_id = PyNone
         /\ \E i \in 1..Len(request.elems) : ValidInitialize(request.elems[i]) )
       => /\ reply.status = 200
          /\ Truthy(reply.session_id)
          /\ reply.session_id \notin DOMAIN before.sessions
          /\ reply.session_id \notin IssuedBefore \cup before.closed
          /\ reply.session_id \in DOMAIN sessions
    /\ ( /\ SingleMessage
         /\ IsRequest(request.elems[1])
         /\ request.elems[1].method = "tools/list"
         /\ request.session_id \in Issued(Server) )
       => /\ reply.status = 200
          /\ Len(reply.messages) = 1
          /\ IsResultFor(reply.messages[1], request.elems[1].id)

\* a tools/list that carries an identifier an earlier initialize was given
\* and that is still live
C1_Witness ==
    /\ SingleMessage
    /\ IsRequest(request.elems[1])
    /\ request.elems[1].method = "tools/list"
    /\ request.session_id \in Issued(Server) \cap DOMAIN sessions
    /\ uuid_calls = 2
    /\ reply.status = 200

(***************************************************************************)
(* C2. A POST, GET or DELETE with a non-empty Origin that is_safe_origin   *)
(* denies is answered 403 and leaves the session table as it was.          *)
(***************************************************************************)
C2_DeniedOriginIs403 ==
    ( /\ request.http \in {"POST", "GET", "DELETE"}
      /\ Truthy(request.origin)
      /\ ~is_safe_origin(request.origin) )
    => /\ reply.status = 403
       /\ sessions = before.sessions

(***************************************************************************)
(* C3. Once a DELETE has removed a session, a GET (Accept naming           *)
(* text/event-stream) and a POST of a tools/list, tools/call,              *)
(* resources/list or prompts/list Request that carry its identifier are    *)
(* answered 404.                                                           *)
(***************************************************************************)
C3_ClosedSessionIs404 ==
    ( /\ request.session_id \in before.closed
      /\ \/ request.http = "GET" /\ "text/event-stream" \in request.accept
         \/ /\ SingleMessage
            /\ IsRequest(request.elems[1])
            /\ request.elems[1].method \in SessionScoped )
    => reply.status = 404

(***************************************************************************)
(* C4. A live identifier keeps its record until a DELETE removes it: no    *)
(* POST, with or without Mcp-Session-Id, changes or removes the record of  *)
(* an identifier that was live, and an identifier issued to an initialize  *)
(* without header was never issued before.                                 *)
(***************************************************************************)
C4_LiveIdentifierKeepsItsRecord ==
    /\ request.http = "POST"
       => \A id \in DOMAIN before.sessions :
             /\ id \in DOMAIN sessions
             /\ sessions[id] = before.sessions[id]
    /\ (Processed /\ request.session_id = PyNone /\ Truthy(reply.session_id))
       => reply.session_id \notin IssuedBefore

(***************************************************************************)
(* C5. A POST whose body is a batch of one or more Notifications is        *)
(* answered 202 with no body and no event stream.                          *)
(***************************************************************************)
C5_NotificationBatchIs202 ==
    ( /\ BatchOfMessages
      /\ Len(request.elems) >= 1
      /\ \A i \in 1..Len(request.elems) : IsNotification(request.elems[i]) )
    => /\ reply.status = 202
       /\ reply.kind = "empty"
       /\ reply.messages = << >>

(***************************************************************************)
(* C6. The reply to a batch of Messages holds exactly one Response for     *)
(* each Request of the batch, with that Request's id: for every id, as     *)
(* many Responses carry it as Requests do, and there is no other Response. *)
(***************************************************************************)
C6_OneResponsePerRequest ==
    BatchOfMessages
    => /\ Len(reply.messages) = Count(request.elems, IsRequest)
       /\ \A i \in 1..Len(request.elems) :
             IsRequest(request.elems[i])
             => LET SameId(m) == m.id = request.elems[i].id
                    AskedWithId(m) == IsRequest(m) /\ m.id = request.elems[i].id
                IN  Count(reply.messages, SameId) = Count(request.elems, AskedWithId)

(***************************************************************************)
(* C7. A Notification never produces a Response: the reply to a POST whose *)
(* Messages are all Notifications, a single one or a batch, holds no       *)
(* message, whatever the method.                                           *)
(***************************************************************************)
C7_NotificationHasNoResponse ==
    ( /\ Processed
      /\ AllObjects
      /\ \A i \in 1..Len(request.elems) : IsNotification(request.elems[i]) )
    => reply.messages = << >>

(***************************************************************************)
(* C8. A failure raised while an element of a batch is handled becomes an *)
(* error Response of code -32603 with the element's id: a batch that       *)
(* passed the header checks and was decoded is never answered by a bare    *)
(* HTTP error, and every element whose handling raises has its -32603      *)
(* Response in the reply.                                                  *)
(***************************************************************************)
C8_FailuresBecomeInternalErrors ==
    (Processed /\ request.is_list)
    => /\ reply.status \in {200, 202}
       /\ \A i \in 1..Len(request.elems) :
             process_try(request.elems[i], request.session_id,
                         [sessions |-> before.sessions,
                          uuid_calls |-> before.uuid_calls], now).exc # PyNone
             => \E j \in 1..Len(reply.messages) :
                   IsErrorFor(reply.messages[j],
                              Get(request.elems[i], "id", PyNone), INTERNAL_ERROR)

(***************************************************************************)
(* C9. A Request whose method is none of initialize, tools/list,           *)
(* tools/call, resources/list, prompts/list gets an error Response of code *)
(* -32601 with its id, in a reply of status 200; posted alone it leaves    *)
(* the session table as it was.  (The bodies are Messages: every element   *)
(* is a JSON object.)                                                      *)
(***************************************************************************)
C9_UnknownMethodIsMethodNotFound ==
    /\ (Processed /\ AllObjects)
       => \A i \in 1..Len(request.elems) :
             (IsRequest(request.elems[i]) /\ request.elems[i].method \notin KnownMethods)
             => /\ reply.status = 200
                /\ \E j \in 1..Len(reply.messages) :
                      IsErrorFor(reply.messages[j], request.elems[i].id, METHOD_NOT_FOUND)
    /\ ( /\ SingleMessage
         /\ IsRequest(request.elems[1])
         /\ request.elems[1].method \notin KnownMethods )
       => /\ Len(reply.messages) = 1
          /\ sessions = before.sessions
          /\ uuid_calls = before.uuid_calls

\* an unknown method posted in a batch after an initialize that made a
\* session, both answered
C9_Witness ==
    /\ BatchOfMessages
    /\ Len(request.elems) = 2
    /\ ValidInitialize(request.elems[1])
    /\ IsRequest(request.elems[2])
    /\ request.elems[2].method \notin KnownMethods
    /\ DOMAIN sessions # DOMAIN before.sessions
    /\ Len(reply.messages) = 2

(***************************************************************************)
(* C10. A tools/call Request whose params name no registered tool (another *)
(* name, or no name) gets an error Response with its id, in a reply of     *)
(* status 200: never an HTTP error status.  (The bodies are Messages:      *)
(* every element is a JSON object.)                                        *)
(***************************************************************************)
C10_UnknownToolIsErrorResponse ==
    (Processed /\ AllObjects)
    => \A i \in 1..Len(request.elems) :
          ( /\ IsRequest(request.elems[i])
            /\ request.elems[i].method = "tools/call"
            /\ Get(request.elems[i], "params", EmptyParams).py = "dict"
            /\ Get(Get(request.elems[i], "params", EmptyParams), "name", PyNone)
                  \notin RegisteredTools )
          => /\ reply.status = 200
             /\ reply.kind \in {"json", "sse"}
             /\ \E j \in 1..Len(reply.messages) :
                   IsErrorFor(reply.messages[j], request.elems[i].id, METHOD_NOT_FOUND)

\* a tools/call without a name, answered
C10_Witness ==
    /\ SingleMessage
    /\ IsRequest(request.elems[1])
    /\ request.elems[1].method = "tools/call"
    /\ Get(request.elems[1], "params", EmptyParams).py = "dict"
    /\ "name" \notin request.elems[1].params.keys
    /\ reply.status = 200

(***************************************************************************)
(* C11. Every identifier that is a key of the session table after a POST   *)
(* of Messages and was not one before it is the Mcp-Session-Id of the      *)
(* reply to that POST, for a single message and for a batch, also a batch  *)
(* with several initialize Requests.                                       *)
(***************************************************************************)
C11_NewSessionIdsAreCommunicated ==
    (Processed /\ AllObjects)
    => \A id \in DOMAIN sessions \ DOMAIN before.sessions : reply.session_id = id

(***************************************************************************)
(* C13. A DELETE whose Mcp-Session-Id is live is answered 200 and leaves   *)
(* the session table without that identifier and with every other record   *)
(* as it was; a DELETE whose identifier is unknown or absent is answered   *)
(* 404 and leaves the table as it was; so is a DELETE of an identifier an  *)
(* earlier DELETE removed.                                                 *)
(***************************************************************************)
C13_DeleteRemovesExactlyTheSession ==
    request.http = "DELETE"
    => /\ request.session_id \in DOMAIN before.sessions
          => /\ reply.status = 200
             /\ DOMAIN sessions = DOMAIN before.sessions \ {request.session_id}
             /\ \A id \in DOMAIN sessions : sessions[id] = before.sessions[id]
       /\ request.session_id \notin DOMAIN before.sessions
          => /\ reply.status = 404
             /\ sessions = before.sessions
       /\ request.session_id \in before.closed => reply.status = 404

\* a DELETE of a live session beside another one, after an earlier DELETE
C13_Witness ==
    /\ request.http = "DELETE"
    /\ request.session_id \in DOMAIN before.sessions
    /\ before.closed # {}
    /\ DOMAIN sessions # {}
    /\ reply.status = 200

(***************************************************************************)
(* C14. A GET whose Accept names text/event-stream and whose               *)
(* Mcp-Session-Id is no key of the session table is answered 404 and       *)
(* opens no stream.                                                        *)
(***************************************************************************)
C14_GetUnknownSessionIs404 ==
    ( /\ request.http = "GET"
      /\ "text/event-stream" \in request.accept
      /\ Truthy(request.session_id)
      /\ request.session_id \notin DOMAIN before.sessions )
    => /\ reply.status = 404
       /\ reply.kind # "sse"

(***************************************************************************)
(* C15. A POST whose Content-Type is not application/json, or whose Accept *)
(* names neither application/json nor text/event-stream, is answered with  *)
(* a status of 400..499 that does not come from decoding the body, with no *)
(* message in the reply, and the session table and the count of issued     *)
(* identifiers are as they were.                                           *)
(***************************************************************************)
C15_HeaderViolationIs4xx ==
    ( /\ request.http = "POST"
      /\ \/ request.content_type # "application/json"
         \/ /\ "application/json" \notin request.accept
            /\ "text/event-stream" \notin request.accept )
    => /\ reply.status \in 400..499
       /\ reply.kind = "json_error"
       /\ reply.text # "JSONDecodeError"
       /\ reply.messages = << >>
       /\ sessions = before.sessions
       /\ uuid_calls = before.uuid_calls

\* a well-formed initialize sent as text/plain from an allowed origin
C15_Witness ==
    /\ request.http = "POST"
    /\ ~(Truthy(request.origin) /\ ~is_safe_origin(request.origin))
    /\ request.content_type # "application/json"
    /\ request.body_valid
    /\ Len(request.elems) = 1
    /\ ValidInitialize(request.elems[1])
    /\ reply.status = 400

(***************************************************************************)
(* C16, as stated. A POST whose body is not valid JSON is answered 400     *)
(* with no JSON-RPC envelope, no message is processed and the session      *)
(* table is as it was.                                                     *)
(***************************************************************************)
C16_AnyInvalidJsonIs400 ==
    (request.http = "POST" /\ ~request.body_valid)
    => /\ reply.status = 400
       /\ reply.kind = "json_error"
       /\ reply.messages = << >>
       /\ sessions = before.sessions
       /\ uuid_calls = before.uuid_calls

(***************************************************************************)
(* C16, amended. A POST whose Origin is absent or allowed and whose body   *)
(* is not valid JSON is answered 400 with no JSON-RPC envelope; a POST     *)
(* whose Origin is denied and whose body is not valid JSON is answered     *)
(* 403; in both cases no message is processed and the session table is as  *)
(* it was.                                                                 *)
(***************************************************************************)
C16_InvalidJsonIs400UnlessOriginDenied ==
    (request.http = "POST" /\ ~request.body_valid)
    => /\ reply.status =
             (IF Truthy(request.origin) /\ ~is_safe_origin(request.origin)
              THEN 403 ELSE 400)
       /\ reply.kind = "json_error"
       /\ reply.messages = << >>
       /\ sessions = before.sessions
       /\ uuid_calls = before.uuid_calls

\* a body that is not JSON under headers that pass every check
C16_Witness ==
    /\ request.http = "POST"
    /\ ~(Truthy(request.origin) /\ ~is_safe_origin(request.origin))
    /\ request.content_type = "application/json"
    /\ "application/json" \in request.accept
    /\ ~request.body_valid
    /\ reply.status = 400
    /\ reply.text = "JSONDecodeError"

(***************************************************************************)
(* C17. The reply to a POST that holds at least one Request is an event    *)
(* stream only when Accept names text/event-stream, and one JSON document  *)
(* when Accept names application/json alone, for a single message and for  *)
(* a batch.                                                                *)
(***************************************************************************)
C17_AcceptSelectsRendering ==
    ( /\ Processed
      /\ AllObjects
      /\ \E i \in 1..Len(request.elems) : IsRequest(request.elems[i]) )
    => /\ reply.kind = "sse" => "text/event-stream" \in request.accept
       /\ request.accept = {"application/json"} => reply.kind = "json"

(***************************************************************************)
(* C18. A GET whose Accept does not name text/event-stream is answered     *)
(* with a status of 400..499, opens no stream and leaves the session table *)
(* as it was; a GET whose Accept names it is answered 200 with a stream in *)
(* listen mode that carries no frame.                                      *)
(***************************************************************************)
C18_GetNeedsEventStream ==
    request.http = "GET"
    => /\ "text/event-stream" \notin request.accept
          => /\ reply.status \in 400..499
             /\ reply.kind # "sse"
             /\ sessions = before.sessions
       /\ "text/event-stream" \in request.accept
          => /\ reply.status = 200
             /\ reply.kind = "sse"
             /\ reply.text = "listen"
             /\ reply.messages = << >>
             /\ reply.event_ids = << >>

\* a GET that accepts only application/json while a session is live
C18_Witness ==
    /\ request.http = "GET"
    /\ "text/event-stream" \notin request.accept
    /\ DOMAIN sessions # {}
    /\ reply.status = 405

\* the task of connection c has answered a DELETE
DoneDelete(c) == tasks[c].pc = "done" /\ tasks[c].request.http = "DELETE"

\* the members handle_initialize gives a session record
SessionFields == {"protocol_version", "client_info", "capabilities", "created_at"}

(***************************************************************************)
(* C12. Whatever the interleaving of the tasks at their awaits: every      *)
(* record of the session table has protocol_version, client_info,          *)
(* capabilities and created_at; every identifier the server has issued or  *)
(* has sent in a reply is a key of the table unless a DELETE removed it;   *)
(* a DELETE is answered 200 exactly when it found its identifier, and of   *)
(* two DELETEs of one identifier on two connections, one of which found it *)
(* live, one is answered 200 and the other 404.                            *)
(***************************************************************************)
C12_SessionTableIsAtomic ==
    /\ \A id \in DOMAIN sessions :
          /\ DOMAIN sessions[id] = SessionFields
          /\ \A f \in SessionFields \ {"created_at"} : sessions[id][f] # Absent
    /\ Issued(Server) \subseteq DOMAIN sessions \cup closed
    /\ \A c \in Connections :
          Truthy(tasks[c].reply.session_id)
          => tasks[c].reply.session_id \in DOMAIN sessions \cup closed
    /\ \A c \in Connections :
          DoneDelete(c)
          => tasks[c].reply.status = (IF tasks[c].was_live THEN 200 ELSE 404)
    /\ \A c, d \in Connections :
          ( /\ c # d
            /\ DoneDelete(c)
            /\ DoneDelete(d)
            /\ tasks[c].request.session_id = tasks[d].request.session_id
            /\ tasks[c].was_live \/ tasks[d].was_live )
          => {tasks[c].reply.status, tasks[d].reply.status} = {200, 404}

\* two DELETEs of one session answered on two connections while both are
\* open, the session made by an initialize that another task ran beside
C12_Witness ==
    /\ \A c \in Connections : DoneDelete(c)
    /\ \E c, d \in Connections :
          /\ tasks[c].request.session_id = tasks[d].request.session_id
          /\ tasks[c].reply.status = 200
          /\ tasks[d].reply.status = 404
    /\ uuid_calls = 2

(***************************************************************************)
(* C19. A stream in listen mode that a GET opened is ended by the server   *)
(* only when the connection is closed: while the client has not closed     *)
(* the connection the handler does not reach write_eof.                    *)
(***************************************************************************)
C19_ListenStreamStaysOpen ==
    \A c \in Connections :
        ( /\ tasks[c].request.http = "GET"
          /\ tasks[c].plan.kind = "sse"
          /\ tasks[c].pc \in {"eof", "done"} )
        => ~tasks[c].connected

\* int(s) of a sequence of digit characters
RECURSIVE IntOf(_)
IntOf(cs) ==
    IF cs = << >> THEN 0
    ELSE 10 * IntOf(SubSeq(cs, 1, Len(cs) - 1))
         + ((CHOOSE d \in 1..10 : DigitChars[d] = cs[Len(cs)]) - 1)

\* the place of the last "-" of a frame identifier
LastDash(id) == CHOOSE k \in 1..Len(id) : id[k] = "-" /\ \A j \in (k + 1)..Len(id) : id[j] # "-"

\* the clock reading a frame identifier msg-<reading>-<index> carries
ClockOf(id) == IntOf(SubSeq(id, 5, LastDash(id) - 1))

\* the index a frame identifier msg-<reading>-<index> carries
IndexOf(id) == IntOf(SubSeq(id, LastDash(id) + 1, Len(id)))

\* the identifier a comes before b: by the clock reading, then by the index
ComesBefore(a, b) ==
    \/ ClockOf(a) < ClockOf(b)
    \/ ClockOf(a) = ClockOf(b) /\ IndexOf(a) < IndexOf(b)

(***************************************************************************)
(* C20. The frame identifiers of one stream are pairwise distinct, and     *)
(* each comes before every later one in the order of clock reading and     *)
(* index, however many frames are written and whatever the clock reads     *)
(* between them, as long as it does not go back.                           *)
(***************************************************************************)
C20_FrameIdsDistinctAndIncreasing ==
    \A j, k \in 1..Len(stream.frames) :
        j < k => /\ stream.frames[j] # stream.frames[k]
                 /\ ComesBefore(stream.frames[j], stream.frames[k])

\* three frames: two written at one clock reading, and two between which the
\* reading went from one digit to two
C20_Witness ==
    /\ Len(stream.frames) = 3
    /\ \E j, k \in 1..2 :
          /\ ClockOf(stream.frames[j]) = ClockOf(stream.frames[j + 1])
          /\ ClockOf(stream.frames[k]) < 10
          /\ ClockOf(stream.frames[k + 1]) >= 10

\* m bears a method: the processor answers it
HasMethod(m) == m.py = "dict" /\ "method" \in m.keys

\* m calls initialize, as a Request or as a Notification
IsInitialize(m) == HasMethod(m) /\ m.method = "initialize"

\* the elements of the body that bear a method, in the order of the body
Causes == SelectSeq(request.elems, HasMethod)

\* the initialize calls of the body, in the order of the body
Inits == SelectSeq(request.elems, IsInitialize)

\* the POST was decoded and holds an initialize call
HasInitialize ==
    Processed /\ \E i \in 1..Len(request.elems) : IsInitialize(request.elems[i])

\* what is_safe_origin and its caller are to allow: no Origin, an entry of
\* the list, a loopback prefix
AllowedByPolicy(origin) ==
    \/ origin = PyNone
    \/ origin \in safe_origins
    \/ StartsWith(origin, "http://localhost:")
    \/ StartsWith(origin, "http://127.0.0.1:")

\* a tools/list Request posted alone, without Origin and without session
ProbeRequest ==
    HttpRequest("POST", PyNone, "application/json", {"application/json"}, PyNone,
                TRUE, FALSE, <<RequestNoParams("1", "tools/list")>>)

(***************************************************************************)
(* C21. An initialize Request repeated with the same params and the same   *)
(* Mcp-Session-Id header, present or absent, leaves the session table with *)
(* the keys it had after the first call and with the same protocol         *)
(* version, capabilities and client info under each, and is answered with  *)
(* the same messages.                                                      *)
(***************************************************************************)
C21_InitializeIsIdempotent ==
    ( /\ SingleMessage
      /\ ValidInitialize(request.elems[1])
      /\ reply.status = 200 )
    => LET again == handle_mcp_endpoint(request, Server, now)
       IN  /\ DOMAIN again.st.sessions = DOMAIN sessions
           /\ \A id \in DOMAIN sessions \cap DOMAIN again.st.sessions :
                 /\ again.st.sessions[id].protocol_version = sessions[id].protocol_version
                 /\ again.st.sessions[id].capabilities = sessions[id].capabilities
                 /\ again.st.sessions[id].client_info = sessions[id].client_info
           /\ again.reply.messages = reply.messages

(***************************************************************************)
(* C22. A key is added to the session table or a record is written only    *)
(* by a POST that holds an initialize call, and a key is removed only by a *)
(* DELETE; a POST without initialize call (tools/list, tools/call,         *)
(* resources/list, prompts/list, unknown methods, messages without         *)
(* method), a GET and an OPTIONS leave the table as it was.                *)
(***************************************************************************)
C22_OnlyInitializeAndDeleteChangeSessions ==
    request.http # "NONE"
    => /\ (\E id \in DOMAIN sessions :
              \/ id \notin DOMAIN before.sessions
              \/ sessions[id] # before.sessions[id])
          => HasInitialize
       /\ (\E id \in DOMAIN before.sessions : id \notin DOMAIN sessions)
          => request.http = "DELETE"
       /\ ( \/ request.http \in {"GET", "OPTIONS"}
            \/ request.http = "POST" /\ ~HasInitialize )
          => sessions = before.sessions

\* a batch of a tools/call and an unknown method while a session is live
C22_Witness ==
    /\ BatchOfMessages
    /\ Len(request.elems) = 2
    /\ request.elems[1].method = "tools/call"
    /\ request.elems[2].method \notin KnownMethods
    /\ reply.status = 200
    /\ DOMAIN sessions # {}

(***************************************************************************)
(* C23. A POST is let past the Origin check if and only if its Origin is   *)
(* absent, is an entry of the list of safe origins, or begins with         *)
(* http://localhost: or http://127.0.0.1: ; with any other Origin value it *)
(* is answered 403.                                                        *)
(***************************************************************************)
C23_OriginAllowedIffPolicy ==
    request.http = "POST"
    => (reply.status # 403 <=> AllowedByPolicy(request.origin))

(***************************************************************************)
(* C24. Every message of the reply to a decoded POST answered 200, as the  *)
(* JSON body or as a frame, has the members jsonrpc and id, exactly one of *)
(* result and error and no other member, and the id of the message that    *)
(* caused it (null when that message has none): the j-th message answers   *)
(* the j-th element of the body that bears a method.                       *)
(***************************************************************************)
C24_RepliesAreResponses ==
    (Processed /\ reply.status = 200)
    => /\ Len(reply.messages) = Len(Causes)
       /\ \A j \in 1..Len(reply.messages) :
             /\ reply.messages[j].py = "dict"
             /\ {"jsonrpc", "id"} \subseteq reply.messages[j].keys
             /\ reply.messages[j].keys \subseteq {"jsonrpc", "id", "result", "error"}
             /\ ("result" \in reply.messages[j].keys) # ("error" \in reply.messages[j].keys)
             /\ reply.messages[j].id = Get(Causes[j], "id", PyNone)

\* a batch answered with an error Response and a result Response
C24_Witness ==
    /\ BatchOfMessages
    /\ Len(reply.messages) = 2
    /\ "error" \in reply.messages[1].keys
    /\ "result" \in reply.messages[2].keys
    /\ reply.messages[1].id # reply.messages[2].id

(***************************************************************************)
(* C25. Every POST, whatever its headers and body, is answered with one    *)
(* status out of 200, 202, 400, 403: 200 with a JSON body or a stream, 202 *)
(* with nothing, 400 and 403 with an error body; an exception of the       *)
(* processing is answered 400; and after a POST answered 400 or 403 a      *)
(* tools/list Request is answered 200 with its result.                     *)
(***************************************************************************)
C25_PostHasOneOutcome ==
    request.http = "POST"
    => /\ reply.status \in {200, 202, 400, 403}
       /\ reply.status = 200 <=> reply.kind \in {"json", "sse"}
       /\ reply.status = 202 <=> reply.kind = "empty"
       /\ reply.status \in {400, 403} <=> reply.kind = "json_error"
       /\ reply.status \in {400, 403}
          => LET later == handle_mcp_endpoint(ProbeRequest, Server, now).reply
             IN  /\ later.status = 200
                 /\ Len(later.messages) = 1
                 /\ IsResultFor(later.messages[1], "1")

\* a batch whose second element makes the processor raise, after the first
\* made a session
C25_Witness ==
    /\ request.http = "POST"
    /\ request.is_list
    /\ reply.status = 400
    /\ reply.text = "AttributeError"
    /\ sessions # before.sessions

(***************************************************************************)
(* C26. A tools/call of search_documents with an integer limit is answered *)
(* with at most limit documents, none when limit <= 0, and never more than *)
(* the executor has.                                                       *)
(***************************************************************************)
C26_SearchLimitBoundsItems ==
    ( /\ SingleMessage
      /\ IsRequest(request.elems[1])
      /\ request.elems[1].method = "tools/call"
      /\ request.elems[1].params.py = "dict"
      /\ Get(request.elems[1].params, "name", PyNone) = "search_documents"
      /\ request.elems[1].params.arguments.py = "dict"
      /\ "limit" \in request.elems[1].params.arguments.keys
      /\ request.elems[1].params.arguments.limit_py = "int" )
    => /\ Len(reply.messages) = 1
       /\ reply.messages[1].items <=
             (IF request.elems[1].params.arguments.limit > 0
              THEN request.elems[1].params.arguments.limit ELSE 0)
       /\ reply.messages[1].items <= MOCK_RESULTS

(***************************************************************************)
(* C27.  For a client whose calls are those of the run of                  *)
(* test_streamable_http_connection, in its order: after initialize the     *)
(* client's session_id is an identifier live in the server's table, and    *)
(* stays so until close_session; each of tools/list, the two tools/call,   *)
(* resources/list and prompts/list returns a Response with the id of its   *)
(* request, a result and no error; close_session is answered 200 and the   *)
(* identifier is no longer in the table.                                   *)
(***************************************************************************)
C27_ScriptedRunSucceeds ==
    \A c \in ClientIds :
        /\ clients[c].script \in 1..6 =>
              /\ clients[c].initialized
              /\ Truthy(clients[c].session_id)
              /\ clients[c].session_id \in DOMAIN sessions
              /\ clients[c].exc = PyNone
              /\ clients[c].status = 200
              /\ clients[c].result.py = "dict"
              /\ "result" \in clients[c].result.keys
              /\ "error" \notin clients[c].result.keys
              /\ Len(clients[c].sent) = clients[c].script
              /\ clients[c].result.id = ToString(clients[c].sent[clients[c].script])
        /\ clients[c].script = 7 =>
              /\ clients[c].exc = PyNone
              /\ clients[c].status = 200
              /\ clients[c].session_id \notin DOMAIN sessions

\* a client has made the whole run, the other one has a session of its own
C27_Witness ==
    \E c \in ClientIds, d \in ClientIds :
        /\ c # d
        /\ clients[c].script = 7
        /\ clients[c].status = 200
        /\ Len(clients[c].sent) = 6
        /\ clients[d].script = 1
        /\ clients[d].session_id \in DOMAIN sessions

(***************************************************************************)
(* C28. Every key of the session table is an identifier that               *)
(* create_session_id returned: an Mcp-Session-Id the client made up and    *)
(* sent with initialize is no key of the table.                            *)
(***************************************************************************)
C28_SessionIdsAreServerIssued == DOMAIN sessions \subseteq Issued(Server)

(***************************************************************************)
(* C29. A POST is answered for the first check it fails, in the order      *)
(* Origin (403), Content-Type (400), Accept (400), decoding of the body    *)
(* (400), whatever else is wrong with it; and a POST that fails one of     *)
(* them leaves the session table and the count of issued identifiers as    *)
(* they were and is answered with no message.                              *)
(***************************************************************************)
C29_ChecksRunInOrder ==
    request.http = "POST"
    => LET denied == Truthy(request.origin) /\ ~is_safe_origin(request.origin)
           bad_type == request.content_type # "application/json"
           bad_accept == /\ "application/json" \notin request.accept
                         /\ "text/event-stream" \notin request.accept
       IN  /\ denied => reply.status = 403 /\ reply.text = "Unsafe origin"
           /\ (~denied /\ bad_type)
              => /\ reply.status = 400
                 /\ reply.text = "Content-Type must be application/json"
           /\ (~denied /\ ~bad_type /\ bad_accept)
              => /\ reply.status = 400
                 /\ reply.text = "Accept header must include application/json or text/event-stream"
           /\ (~denied /\ ~bad_type /\ ~bad_accept /\ ~request.body_valid)
              => /\ reply.status = 400
                 /\ reply.text = "JSONDecodeError"
           /\ (denied \/ bad_type \/ bad_accept \/ ~request.body_valid)
              => /\ sessions = before.sessions
                 /\ uuid_calls = before.uuid_calls
                 /\ reply.messages = << >>

\* a POST that fails all four checks
C29_Witness ==
    /\ request.http = "POST"
    /\ Truthy(request.origin)
    /\ ~is_safe_origin(request.origin)
    /\ request.content_type # "application/json"
    /\ "application/json" \notin request.accept
    /\ "text/event-stream" \notin request.accept
    /\ ~request.body_valid
    /\ reply.status = 403

(***************************************************************************)
(* C30. In a batch of Messages every element is processed, in the order of *)
(* the array: the j-th Response answers the j-th element that bears a      *)
(* method, also after an element answered with an error; without           *)
(* Mcp-Session-Id the k-th initialize of the batch gets the k-th           *)
(* identifier issued and its params are stored under it; with              *)
(* Mcp-Session-Id the record is that of the last initialize of the batch.  *)
(***************************************************************************)
C30_BatchInArrayOrder ==
    BatchOfMessages
    => /\ reply.status \in {200, 202}
       /\ Len(reply.messages) = Len(Causes)
       /\ \A j \in 1..Len(reply.messages) :
             /\ reply.messages[j].id = Get(Causes[j], "id", PyNone)
             /\ Causes[j].method \notin KnownMethods
                => IsErrorFor(reply.messages[j], Get(Causes[j], "id", PyNone),
                              METHOD_NOT_FOUND)
             /\ (IsInitialize(Causes[j]) /\ Get(Causes[j], "params", EmptyParams).py = "dict")
                => "result" \in reply.messages[j].keys
       /\ request.session_id = PyNone
          => /\ uuid_calls = before.uuid_calls + Len(Inits)
             /\ DOMAIN sessions =
                   DOMAIN before.sessions
                   \cup {UuidPool[before.uuid_calls + k] : k \in 1..Len(Inits)}
             /\ \A k \in 1..Len(Inits) :
                   sessions[UuidPool[before.uuid_calls + k]]
                      = SessionRecord(Get(Inits[k], "params", EmptyParams), now)
       /\ (Truthy(request.session_id) /\ Len(Inits) > 0)
          => /\ request.session_id \in DOMAIN sessions
             /\ sessions[request.session_id]
                   = SessionRecord(Get(Inits[Len(Inits)], "params", EmptyParams), now)

\* a batch whose first element fails in its handler and whose second is an
\* initialize that makes a session
C30_Witness ==
    /\ BatchOfMessages
    /\ Len(request.elems) = 2
    /\ Len(reply.messages) = 2
    /\ IsErrorFor(reply.messages[1], request.elems[1].id, INTERNAL_ERROR)
    /\ IsInitialize(request.elems[2])
    /\ "result" \in reply.messages[2].keys
    /\ DOMAIN sessions # DOMAIN before.sessions

(***************************************************************************)
(* The tasks under the scheduling of the event loop: a task that waits at  *)
(* an await is resumed when what it awaits is over, and every await of the *)
(* handlers is over in the end (the write to a closed connection raises).  *)
(* Nothing is assumed of how long the sleep of a listen-mode stream lasts. *)
(***************************************************************************)
FairTaskSpec ==
    /\ TaskSpec
    /\ \A c \in Connections :
          WF_vars(Decode(c) \/ Process(c) \/ Prepare(c) \/ Write(c) \/ Eof(c))

\* the task of connection c answers a POST with an event stream
PostStream(c) ==
    /\ tasks[c].request.http = "POST"
    /\ tasks[c].pc \in {"prepare", "write", "eof", "done"}
    /\ tasks[c].plan.kind = "sse"

\* s is the beginning of t
IsPrefix(s, t) ==
    /\ Len(s) <= Len(t)
    /\ \A i \in 1..Len(s) : s[i] = t[i]

(***************************************************************************)
(* C31. The event stream that answers a POST carries the generated         *)
(* Responses as its frames, one frame each and in their order: what has    *)
(* been written is at every moment the beginning of the list of Responses, *)
(* and all of it when the handler returns with the client still            *)
(* connected.  The handler always reaches write_eof and returns, also when *)
(* the write of a frame fails, and writes no frame from write_eof on.      *)
(***************************************************************************)
C31_StreamEmitsResponsesThenEnds ==
    /\ [](\A c \in Connections :
            PostStream(c)
            => /\ IsPrefix(tasks[c].reply.messages, tasks[c].plan.messages)
               /\ (tasks[c].pc = "done" /\ tasks[c].connected)
                  => tasks[c].reply.messages = tasks[c].plan.messages)
    /\ [][\A c \in Connections :
            (PostStream(c) /\ tasks[c].pc \in {"eof", "done"})
            => \/ tasks'[c].pc = "idle"
               \/ /\ tasks'[c].pc \in {"eof", "done"}
                  /\ tasks'[c].reply.messages = tasks[c].reply.messages]_vars
    /\ \A c \in Connections :
          (PostStream(c) /\ tasks[c].pc = "prepare")
             ~> (PostStream(c) /\ tasks[c].pc = "done")

\* a stream of two frames has ended on one connection, and on the other a
\* stream has ended after the write of its first frame failed
C31_Witness ==
    /\ PostStream("c1")
    /\ tasks["c1"].pc = "done"
    /\ tasks["c1"].connected
    /\ Len(tasks["c1"].reply.messages) = 2
    /\ PostStream("c2")
    /\ tasks["c2"].pc = "done"
    /\ ~tasks["c2"].connected
    /\ Len(tasks["c2"].plan.messages) = 2
    /\ Len(tasks["c2"].reply.messages) = 0

\* the reply to the last request had it come with the Mcp-Session-Id sid
\* to a server whose session table is tbl
ReplyWith(sid, tbl) ==
    handle_mcp_endpoint([request EXCEPT !.session_id = sid],
                        [sessions |-> tbl, uuid_calls |-> before.uuid_calls],
                        now).reply

(***************************************************************************)
(* C32. The reply to a tools/list, tools/call, resources/list or           *)
(* prompts/list message is the same whatever Mcp-Session-Id comes with it   *)
(* (none, one the server never saw, one that is live, one that was closed) *)
(* and whatever the session table holds, the empty table of a server no    *)
(* client has initialized included; and the table is left as it was.       *)
(***************************************************************************)
C32_ReplyIndependentOfSession ==
    ( /\ SingleMessage
      /\ HasMethod(request.elems[1])
      /\ request.elems[1].method \in SessionScoped )
    => /\ \A sid \in SessionHeaders(Server) \cup closed :
             \A tbl \in {NoSessions, before.sessions} :
                 ReplyWith(sid, tbl) = reply
       /\ sessions = before.sessions

\* a tools/call that names a tool, sent with a live identifier and answered
\* with a result, while another identifier has been closed
C32_Witness ==
    /\ SingleMessage
    /\ IsRequest(request.elems[1])
    /\ request.elems[1].method = "tools/call"
    /\ Truthy(request.session_id)
    /\ request.session_id \in DOMAIN sessions
    /\ closed # {}
    /\ reply.status = 200
    /\ IsResultFor(reply.messages[1], request.elems[1].id)

\* Responses of other content than those of the reply
OtherFrames == {ResultMsg("7", "tools", 2), ErrorMsg(PyNone, INTERNAL_ERROR)}

(***************************************************************************)
(* C33. The identifiers of the frames of an event stream do not depend on  *)
(* the messages: at the reading of the clock of the exchange and at the    *)
(* latest reading, a stream of the messages of the reply and a stream of   *)
(* as many messages of any other content carry the same identifiers in the *)
(* same order.                                                             *)
(***************************************************************************)
C33_FrameIdsIndependentOfContent ==
    (request.http = "POST" /\ reply.kind = "sse")
    => \A t \in {now, MaxClock} :
          \E mine \in {create_sse_response(reply.messages, request.session_id,
                                            FALSE, t).event_ids} :
              \A other \in [1..Len(reply.messages) -> OtherFrames] :
                  create_sse_response(other, PyNone, FALSE, t).event_ids = mine

\* a stream of two frames, an error and a result
C33_Witness ==
    /\ request.http = "POST"
    /\ reply.kind = "sse"
    /\ Len(reply.messages) = 2
    /\ Len(reply.event_ids) = 2
    /\ "error" \in reply.messages[1].keys
    /\ "result" \in reply.messages[2].keys

(***************************************************************************)
(* C34. A decoded POST whose body holds no element with a method (one      *)
(* Response object, an array of Response objects, the empty array) is      *)
(* answered 202 without body, without Mcp-Session-Id and without event     *)
(* stream, and leaves the session table and the count of issued            *)
(* identifiers as they were.                                               *)
(***************************************************************************)
C34_NoMethodIsAccepted ==
    ( /\ Processed
      /\ AllObjects
      /\ \A i \in 1..Len(request.elems) : ~HasMethod(request.elems[i]) )
    => /\ reply.status = 202
       /\ reply.kind = "empty"
       /\ reply.messages = << >>
       /\ reply.event_ids = << >>
       /\ reply.session_id = PyNone
       /\ sessions = before.sessions
       /\ uuid_calls = before.uuid_calls

\* an array of two Response objects posted while a session is live
C34_Witness ==
    /\ BatchOfMessages
    /\ Len(request.elems) = 2
    /\ \A i \in 1..2 : ~HasMethod(request.elems[i])
    /\ reply.status = 202
    /\ DOMAIN sessions # {}

(***************************************************************************)
(* C35. No message of a reply to a POST, sent as the JSON body or as a     *)
(* frame of an event stream, has the member _session_id that               *)
(* handle_initialize puts into its Response; the identifier goes out in    *)
(* the Mcp-Session-Id header only.                                         *)
(***************************************************************************)
C35_SessionIdMemberIsNotSent ==
    request.http = "POST"
    => \A j \in 1..Len(reply.messages) :
          /\ "_session_id" \notin reply.messages[j].keys
          /\ reply.messages[j]._session_id = Absent

\* a batch of two initialize Requests answered with two frames, and the
\* header carries an identifier
C35_Witness ==
    /\ BatchOfMessages
    /\ Len(request.elems) = 2
    /\ \A i \in 1..2 : ValidInitialize(request.elems[i])
    /\ reply.kind = "sse"
    /\ Len(reply.messages) = 2
    /\ Truthy(reply.session_id)

\* the task of connection c is at the sleep of a listen-mode stream that a
\* GET opened
Listening(c) ==
    /\ tasks[c].request.http = "GET"
    /\ tasks[c].pc = "sleep"

\* the identifiers the body of the POST on connection d can still ask for
\* are within the count the model follows
RoomFor(d) == uuid_calls + Len(tasks[d].request.elems) <= MaxSessions

(***************************************************************************)
(* C36. While the task of a GET is suspended at the sleep of its           *)
(* listen-mode stream, the task of another connection is never held up:    *)
(* each of its steps can be taken, an initialize it processes adds its     *)
(* identifier to the session table, a DELETE that arrives removes the      *)
(* identifier it names and is answered at once; and a POST that has        *)
(* arrived is answered in the end for as long as the stream stays          *)
(* suspended.                                                              *)
(***************************************************************************)
C36_ListenDoesNotBlock ==
    /\ [](\A c \in Connections, d \in Connections :
            (c # d /\ Listening(c))
            => /\ tasks[d].pc = "json" => ENABLED Decode(d)
               /\ (tasks[d].pc = "process" /\ uuid_calls < MaxSessions)
                  => ENABLED Process(d)
               /\ ( /\ tasks[d].pc = "process"
                    /\ uuid_calls < MaxSessions
                    /\ ValidInitialize(tasks[d].request.elems[tasks[d].i]) )
                  => ENABLED (Process(d) /\ DOMAIN sessions' # DOMAIN sessions)
               /\ tasks[d].pc = "prepare" => ENABLED Prepare(d)
               /\ tasks[d].pc = "write" => ENABLED Write(d)
               /\ tasks[d].pc = "eof" => ENABLED Eof(d)
               /\ (tasks[d].pc = "idle" /\ DOMAIN sessions # {})
                  => ENABLED ( /\ Arrive(d)
                               /\ tasks'[d].request.http = "DELETE"
                               /\ tasks'[d].pc = "done"
                               /\ tasks'[d].plan.status = 200
                               /\ DOMAIN sessions' # DOMAIN sessions ))
    /\ \A c \in Connections, d \in Connections :
          ( /\ c # d
            /\ Listening(c)
            /\ tasks[d].request.http = "POST"
            /\ tasks[d].pc = "json"
            /\ RoomFor(d) )
          ~> (tasks[d].pc = "done" \/ ~Listening(c))

\* a listen-mode stream sleeps while an initialize that arrived on the
\* other connection is about to be processed
C36_Witness ==
    /\ Listening("c1")
    /\ tasks["c2"].pc = "process"
    /\ ValidInitialize(tasks["c2"].request.elems[1])
    /\ uuid_calls < MaxSessions

\* the calls that need an initialized client
GuardedCalls == {"list_tools", "list_resources", "list_prompts"} \cup ToolCalls

\* the call that has just changed client c sent a request
HasSent(c) == Len(clients'[c].sent) > Len(clients[c].sent)

(***************************************************************************)
(* C37. A client sends tools/list, tools/call, resources/list or           *)
(* prompts/list only when it is initialized, and it becomes initialized    *)
(* only by an initialize that returned a reply without error: on a client  *)
(* that is not initialized each of the four raises, sends nothing and      *)
(* takes no request id; an initialize that raises leaves initialized as it *)
(* was; and every request sent takes an id greater than all ids taken      *)
(* before.                                                                 *)
(***************************************************************************)
C37_ClientGuardsAndIds ==
    /\ [](\A c \in ClientIds :
            /\ \A i \in 1..Len(clients[c].sent) :
                  /\ clients[c].sent[i] < clients[c].next_request_id
                  /\ \A j \in 1..Len(clients[c].sent) :
                        i < j => clients[c].sent[i] < clients[c].sent[j]
            /\ (~clients[c].initialized /\ clients[c].call \in GuardedCalls)
               => /\ clients[c].exc = "Exception"
                  /\ clients[c].status = 0)
    /\ [][\A c \in ClientIds :
            clients'[c] # clients[c]
            => /\ (clients'[c].call \in GuardedCalls /\ ~clients[c].initialized)
                  => /\ ~HasSent(c)
                     /\ clients'[c].next_request_id = clients[c].next_request_id
                     /\ clients'[c].exc = "Exception"
                     /\ clients'[c].status = 0
                     /\ ~clients'[c].initialized
                     /\ sessions' = sessions
               /\ (clients'[c].call \in GuardedCalls /\ HasSent(c))
                  => clients[c].initialized
               /\ (clients'[c].initialized /\ ~clients[c].initialized)
                  => /\ clients'[c].call = "initialize"
                     /\ clients'[c].exc = PyNone
                     /\ clients'[c].result.py = "dict"
                     /\ "error" \notin clients'[c].result.keys
               /\ (clients'[c].call = "initialize" /\ clients'[c].exc # PyNone)
                  => clients'[c].initialized = clients[c].initialized
               /\ HasSent(c)
                  => clients'[c].sent = Append(clients[c].sent,
                                               clients[c].next_request_id)]_vars

\* a client whose two initialize calls failed has called list_tools, which
\* raised; the other client is initialized and has sent three requests
C37_Witness ==
    \E c \in ClientIds, d \in ClientIds :
        /\ c # d
        /\ ~clients[c].initialized
        /\ Len(clients[c].sent) = 2
        /\ clients[c].call = "list_tools"
        /\ clients[c].exc = "Exception"
        /\ clients[c].status = 0
        /\ clients[d].initialized
        /\ Len(clients[d].sent) = 3
        /\ clients[d].call \in GuardedCalls

====
